---------------------------- MODULE Spec2Model ----------------------------
(***************************************************************************)
(* Verification model of gimp-python-wrappers:                             *)
(*   - the stub generator (generate-pdb-stubs/stubgen.py and the older     *)
(*     pdb-stub-generator/stubgen_pdb.py): stripping of function bodies    *)
(*     from the parsed pypdb module and synthesis of the stub methods;     *)
(*   - the procedure registration helper (wrappers/procedure.py).          *)
(* Python objects with identity (AST statement nodes, GObject properties)  *)
(* are cells of a heap addressed by their index; Python strings that the   *)
(* code takes apart (names) are sequences of one-character strings.        *)
(***************************************************************************)
EXTENDS Integers, Sequences, FiniteSets, TLC

VARIABLES
  \* ---- stub generator: _remove_implementation_of_functions
  generator,     \* which module runs: "stubgen" or "stubgen_pdb"
  heap,          \* the statement nodes of the parsed module, node 1 is the ast.Module
  srcHeap,       \* the heap as ast.parse returned it
  stripStatus,   \* "parsed", then "done" or "AttributeError"
  \* ---- stub generator: generate_pdb_stubs
  pypdbFileExists,  \* os.path.isfile(PYPDB_MODULE_FILEPATH)
  gimpProcs,     \* the list pypdb.pdb.list_all_gimp_pdb_procedures() returns
  geglOps,       \* the list pypdb.pdb.list_all_gegl_operations() returns
  procInfo,      \* procedure name -> what GimpPDBProcedure / GeglProcedure expose
  stubStatus,    \* "start", then "written", "RuntimeError" or "AttributeError"
  \* ---- wrappers/procedure.py
  procedureNamesAndData,  \* _PROCEDURE_NAMES_AND_DATA: a dict, entries in insertion order
  pluginProperties,       \* _PLUGIN_PROPERTIES: name -> index of the property object
  propertyObjects,        \* the GObject.Property objects created so far
  calls,                  \* what each register_procedure call was given and how it ended
  paramEvents,            \* the list elements _parse_and_check_parameters has handled
  queried,                \* what the last _do_query_procedures call returned
  created,                \* what the last _do_create_procedure call did
  ran,                    \* what the last run of a procedure's run wrapper did
  useLocale,              \* _USE_LOCALE
  initProceduresFunc,     \* _INIT_PROCEDURES_FUNC
  quitFunc,               \* _QUIT_FUNC
  setCalls,               \* the set_init_procedures_func and set_quit_func calls made
  pluginClass,            \* the class dictionary _create_plugin_class built last
  \* ---- pdb-wrapper/pypdb.py
  lastStatus,             \* _last_status of each _PyPDB object
  lastError,              \* _last_error of each _PyPDB object
  pdbHistory,             \* per call: the wrapper, the host's result, what was returned
  pdbCall,                \* the last call: what it was given and the host calls it made
  \* ---- the plug-in procedure generate_pdb_stubs
  genRun,                 \* the run that waits in dialog.run(), or None
  genRuns,                \* the runs that ended: what they were given and what they did
  \* ---- stub generator: the docstring of a GIMP PDB procedure
  docProc,                \* what the procedure exposes: blurb, image types, menu label and paths
  docstring               \* the docstring composed for it, or None before the call

stripVars == <<generator, heap, srcHeap, stripStatus>>
stubVars == <<pypdbFileExists, gimpProcs, geglOps, procInfo, stubStatus>>
regVars == <<procedureNamesAndData, pluginProperties, propertyObjects, calls, paramEvents,
             queried, created, ran>>

plugVars == <<useLocale, initProceduresFunc, quitFunc, setCalls, pluginClass>>

pdbVars == <<lastStatus, lastError, pdbHistory, pdbCall>>

genVars == <<genRun, genRuns>>

docVars == <<docProc, docstring>>

\* the variables of the components modelled after the registration
laterVars == <<plugVars, pdbVars, genVars, docVars>>

vars == <<generator, heap, srcHeap, stripStatus,
          pypdbFileExists, gimpProcs, geglOps, procInfo, stubStatus,
          procedureNamesAndData, pluginProperties, propertyObjects, calls, paramEvents,
          queried, created, ran,
          useLocale, initProceduresFunc, quitFunc, setCalls, pluginClass,
          lastStatus, lastError, pdbHistory, pdbCall,
          genRun, genRuns, docProc, docstring>>

\* what the actions of one component leave alone
notPlugVars == <<stripVars, stubVars, regVars, pdbVars, genVars, docVars>>
notPdbVars == <<stripVars, stubVars, regVars, plugVars, genVars, docVars>>
notGenVars == <<stripVars, stubVars, regVars, plugVars, pdbVars, docVars>>
notDocVars == <<stripVars, stubVars, regVars, plugVars, pdbVars, genVars>>

----------------------------------------------------------------------------
(* Generic helpers                                                         *)

Range(s) == {s[i] : i \in DOMAIN s}

\* list.insert(index, x) for 0 <= index <= len(list)
ListInsert(s, index, x) == SubSeq(s, 1, index) \o <<x>> \o SubSeq(s, index + 1, Len(s))

\* the list s without the elements at the (1-based) positions in drop
RECURSIVE ListWithout(_, _)
ListWithout(s, drop) ==
  IF s = <<>> THEN <<>>
  ELSE LET rest == ListWithout(SubSeq(s, 1, Len(s) - 1), drop)
       IN IF Len(s) \in drop THEN rest ELSE Append(rest, s[Len(s)])

\* obj.a1.a2...: a Python attribute chain; a missing attribute raises AttributeError
RECURSIVE GetAttrChain(_, _)
GetAttrChain(obj, attrs) ==
  IF attrs = <<>> THEN [ok |-> TRUE, val |-> obj]
  ELSE IF Head(attrs) \in DOMAIN obj
       THEN GetAttrChain(obj[Head(attrs)], Tail(attrs))
       ELSE [ok |-> FALSE, val |-> "AttributeError"]

\* Python str values the code takes apart are sequences of characters; the
\* characters in code-point order
Uppers == <<"A", "B", "C", "D", "E", "F", "G", "H", "I", "J", "K", "L", "M",
            "N", "O", "P", "Q", "R", "S", "T", "U", "V", "W", "X", "Y", "Z">>
Lowers == <<"a", "b", "c", "d", "e", "f", "g", "h", "i", "j", "k", "l", "m",
            "n", "o", "p", "q", "r", "s", "t", "u", "v", "w", "x", "y", "z">>
Alphabet == <<"-", ":">> \o Uppers \o <<"_">> \o Lowers

Ord(c) == CHOOSE i \in DOMAIN Alphabet : Alphabet[i] = c

\* a < b for two str values
RECURSIVE StrLess(_, _)
StrLess(a, b) ==
  IF b = <<>> THEN FALSE
  ELSE IF a = <<>> THEN TRUE
  ELSE IF Head(a) = Head(b) THEN StrLess(Tail(a), Tail(b))
  ELSE Ord(Head(a)) < Ord(Head(b))

\* str.replace(old, new), old one character
RECURSIVE StrReplace(_, _, _)
StrReplace(str, old, new) ==
  IF str = <<>> THEN <<>>
  ELSE (IF Head(str) = old THEN new ELSE <<Head(str)>>) \o StrReplace(Tail(str), old, new)

StrEndsWith(str, suffix) ==
  /\ Len(suffix) <= Len(str)
  /\ SubSeq(str, Len(str) - Len(suffix) + 1, Len(str)) = suffix

StrUpper(str) ==
  [i \in DOMAIN str |->
     IF \E k \in DOMAIN Lowers : Lowers[k] = str[i]
     THEN Uppers[CHOOSE k \in DOMAIN Lowers : Lowers[k] = str[i]] ELSE str[i]]

StrLower(str) ==
  [i \in DOMAIN str |->
     IF \E k \in DOMAIN Uppers : Uppers[k] = str[i]
     THEN Lowers[CHOOSE k \in DOMAIN Uppers : Uppers[k] = str[i]] ELSE str[i]]

\* sorted(list) of str values: a stable insertion sort
RECURSIVE SortedInsert(_, _)
SortedInsert(sorted, x) ==
  IF sorted = <<>> THEN <<x>>
  ELSE IF StrLess(x, Head(sorted)) THEN <<x>> \o sorted
  ELSE <<Head(sorted)>> \o SortedInsert(Tail(sorted), x)

RECURSIVE Sorted(_)
Sorted(list) ==
  IF list = <<>> THEN <<>>
  ELSE SortedInsert(Sorted(SubSeq(list, 1, Len(list) - 1)), list[Len(list)])

\* the lists without repetition over a set
ListsOver(S, maxLen) ==
  UNION { { l \in [1..n -> S] : \A i, j \in 1..n : i # j => l[i] # l[j] } : n \in 0..maxLen }

None == [type |-> "None"]
Str(v) == [type |-> "str", v |-> v]
Tuple(items) == [type |-> "tuple", items |-> items]
List(items) == [type |-> "list", items |-> items]
Dict(items) == [type |-> "dict", items |-> items]

\* a Python dict: its items in insertion order
DictKeys(d) == [i \in DOMAIN d |-> d[i].key]
DictHas(d, key) == \E i \in DOMAIN d : d[i].key = key
DictGet(d, key) == d[CHOOSE i \in DOMAIN d : d[i].key = key].value
\* d[key] = value: a key already present keeps its place
DictSet(d, key, value) ==
  IF DictHas(d, key)
  THEN [i \in DOMAIN d |-> IF d[i].key = key THEN [key |-> key, value |-> value] ELSE d[i]]
  ELSE Append(d, [key |-> key, value |-> value])

\* the state of a component that a specification does not exercise
StripIdle ==
  /\ generator = "none"
  /\ heap = <<>>
  /\ srcHeap = <<>>
  /\ stripStatus = "idle"

StubIdle ==
  /\ pypdbFileExists = TRUE
  /\ gimpProcs = <<>>
  /\ geglOps = <<>>
  /\ procInfo = <<>>
  /\ stubStatus = "idle"

RegIdle ==
  /\ procedureNamesAndData = <<>>
  /\ pluginProperties = <<>>
  /\ propertyObjects = <<>>
  /\ calls = <<>>
  /\ paramEvents = <<>>
  /\ queried = None
  /\ created = None
  /\ ran = None

PlugIdle ==
  /\ useLocale = FALSE
  /\ initProceduresFunc = None
  /\ quitFunc = None
  /\ setCalls = <<>>
  /\ pluginClass = None

\* the _PyPDB objects: the module's pdb and a second instance of the class
PyPDBs == {"pdb", "other"}

PdbIdle ==
  /\ lastStatus = [w \in PyPDBs |-> None]
  /\ lastError = [w \in PyPDBs |-> None]
  /\ pdbHistory = <<>>
  /\ pdbCall = None

GenIdle ==
  /\ genRun = None
  /\ genRuns = <<>>

DocIdle ==
  /\ docProc = None
  /\ docstring = None

LaterIdle ==
  /\ PlugIdle
  /\ PdbIdle
  /\ GenIdle
  /\ DocIdle

----------------------------------------------------------------------------
(* Parsed modules.  Expression nodes are records carrying the fields of    *)
(* their ast class; statement nodes live in the heap.                      *)

MaxNodes == 3   \* statement nodes below the ast.Module node

Name(id) == [type |-> "Name", id |-> id]
Attribute(value, attr) == [type |-> "Attribute", value |-> value, attr |-> attr]
Subscript(value) == [type |-> "Subscript", value |-> value, slice |-> [type |-> "Constant"]]
TupleExpr == [type |-> "Tuple", elts |-> <<>>]
Call(func) == [type |-> "Call", func |-> func, args |-> <<>>]
ConstantExpr(v) == [type |-> "Constant", value |-> [py |-> v]]

NoExpr == [type |-> "absent"]

\* a statement node; fields an ast class does not have stay empty
Stmt(type, name, args, decos, targets, value) ==
  [type |-> type, name |-> name, args |-> args, defaults |-> <<>>, returns |-> None,
   decorator_list |-> decos, body |-> <<>>, targets |-> targets, value |-> value]

PassStmt == Stmt("Pass", <<>>, <<>>, <<>>, <<>>, NoExpr)

S_init == <<"_", "_", "i", "n", "i", "t", "_", "_">>
S_PyPDB == <<"_", "P", "y", "P", "D", "B">>
S_self == <<"s", "e", "l", "f">>

\* an ast.arg node
Arg(name, annotation) == [arg |-> name, annotation |-> annotation]

\* the statements a module, class or function body is drawn from
SimpleStmts ==
  { PassStmt,
    \* self.a = 1
    Stmt("Assign", <<>>, <<>>, <<>>, <<Attribute(Name("self"), "a")>>, ConstantExpr("1")),
    \* x = 1
    Stmt("Assign", <<>>, <<>>, <<>>, <<Name("x")>>, ConstantExpr("1")),
    \* super().__init__()
    Stmt("Expr", <<>>, <<>>, <<>>, <<>>, Call(Attribute(Call(Name("super")), "__init__"))),
    \* print()
    Stmt("Expr", <<>>, <<>>, <<>>, <<>>, Call(Name("print"))) }

CompoundStmts ==
  { Stmt("ClassDef", <<"C">>, <<>>, <<>>, <<>>, NoExpr),
    Stmt("FunctionDef", <<"f">>, <<Arg(S_self, None), Arg(<<"x">>, None)>>,
         <<"property">>, <<>>, NoExpr),
    Stmt("FunctionDef", S_init, <<Arg(S_self, None)>>, <<>>, <<>>, NoExpr),
    Stmt("AsyncFunctionDef", <<"g">>, <<Arg(S_self, None)>>, <<>>, <<>>, NoExpr),
    Stmt("If", <<>>, <<>>, <<>>, <<>>, NoExpr) }

ModuleNode == Stmt("Module", <<>>, <<>>, <<>>, <<>>, NoExpr)

\* the children of node n under the parent map, in source order
ChildrenOf(parent, n) ==
  LET kids == {j \in DOMAIN parent : parent[j] = n}
      RECURSIVE Asc(_)
      Asc(S) == IF S = {} THEN <<>>
                ELSE LET m == CHOOSE x \in S : \A y \in S : x <= y
                     IN <<m>> \o Asc(S \ {m})
  IN Asc(kids)

\* the heap of a tree given by the statement and the parent of each node
BuildHeap(kind, parent) ==
  [i \in 1..(Len(kind) + 1) |->
     IF i = 1 THEN [ModuleNode EXCEPT !.body = ChildrenOf(parent, 1)]
     ELSE [kind[i - 1] EXCEPT !.body = ChildrenOf(parent, i)]]

\* every tree of at most MaxNodes statements, nodes numbered breadth-first
ParsedModules ==
  UNION {
    { BuildHeap([i \in 1..n |-> kp[1][i + 1]], [i \in 1..(n + 1) |-> IF i = 1 THEN 0 ELSE kp[2][i]]) :
      kp \in
        { c \in [2..(n + 1) -> SimpleStmts \cup CompoundStmts]
                  \X [2..(n + 1) -> 1..n] :
            /\ \A i \in 2..(n + 1) :
                 /\ c[2][i] < i
                 /\ c[2][i] = 1 \/ c[1][c[2][i]] \in CompoundStmts
                 /\ i > 2 => c[2][i - 1] <= c[2][i]
            \* a parsed compound statement has a non-empty body
            /\ \A i \in 2..(n + 1) :
                 c[1][i] \in CompoundStmts => \E j \in 2..(n + 1) : c[2][j] = i } }
    : n \in 0..MaxNodes }

----------------------------------------------------------------------------
(* What the host exposes about procedures: parameter specs, GTypes, enums  *)

MaxArgs == 2      \* arguments of a procedure
MaxRetvals == 2   \* return values of a procedure

\* a GType: its name split at the namespace prefix the code tests with
\* startswith ('Gimp', 'Gegl'), whether the namespace module has the attribute
\* (getattr succeeds), and its pytype
GType(name, in_module, pytype) == [name |-> name, in_module |-> in_module, pytype |-> pytype]

PyType(module, qualname) == [module |-> module, qualname |-> qualname]

G_int == GType(<<"gint">>, FALSE, PyType(<<"builtins">>, "int"))
G_image == GType(<<"Gimp", "Image">>, TRUE, PyType(<<"gi", "repository", "Gimp">>, "Image"))
G_drawable == GType(<<"Gimp", "Drawable">>, TRUE, PyType(<<"gi", "repository", "Gimp">>, "Drawable"))
G_core_object_array == GType(<<"Gimp", "CoreObjectArray">>, TRUE, None)
G_run_mode == GType(<<"Gimp", "RunMode">>, TRUE, PyType(<<"gi", "repository", "Gimp">>, "RunMode"))
G_orientation ==
  GType(<<"Gimp", "OrientationType">>, TRUE, PyType(<<"gi", "repository", "Gimp">>, "OrientationType"))
G_abyss == GType(<<"Gegl", "AbyssPolicy">>, TRUE, PyType(<<"gi", "repository", "Gegl">>, "AbyssPolicy"))
G_unnamed == GType(<<>>, FALSE, None)

S_INTERACTIVE == <<"I", "N", "T", "E", "R", "A", "C", "T", "I", "V", "E">>
S_NONINTERACTIVE == <<"N", "O", "N">> \o S_INTERACTIVE
S_WITH_LAST_VALS == <<"W", "I", "T", "H", "_", "L", "A", "S", "T", "_", "V", "A", "L", "S">>
S_HORIZONTAL == <<"H", "O", "R", "I", "Z", "O", "N", "T", "A", "L">>
S_VERTICAL == <<"V", "E", "R", "T", "I", "C", "A", "L">>
S_UNKNOWN == <<"U", "N", "K", "N", "O", "W", "N">>
S_CLAMP == <<"C", "L", "A", "M", "P">>
S_GIMP_RUN_ == <<"G", "I", "M", "P", "_", "R", "U", "N", "_">>
S_GIMP_ORIENTATION_ ==
  <<"G", "I", "M", "P", "_", "O", "R", "I", "E", "N", "T", "A", "T", "I", "O", "N", "_">>
S_GEGL_ABYSS_ == <<"G", "E", "G", "L", "_", "A", "B", "Y", "S", "S", "_">>

\* attributes every GEnum class inherits, listed by dir() with the members
InheritedAttributes ==
  { <<"_", "_", "d", "o", "c", "_", "_">>, <<"r", "e", "a", "l">>,
    <<"v", "a", "l", "u", "e", "_", "n", "a", "m", "e">> }

EnumType(module, qualname, members) ==
  [module |-> module, qualname |-> qualname, members |-> members]

RunModeType ==
  EnumType(<<"gi", "repository", "Gimp">>, "RunMode",
           {S_INTERACTIVE, S_NONINTERACTIVE, S_WITH_LAST_VALS})
OrientationTypeType ==
  EnumType(<<"gi", "repository", "Gimp">>, "OrientationType",
           {S_HORIZONTAL, S_VERTICAL, S_UNKNOWN})
AbyssPolicyType == EnumType(<<"gi", "repository", "Gegl">>, "AbyssPolicy", {S_CLAMP})

\* a GObject.GEnum value: member is the attribute of the enum class bound to it
EnumValue(enum_type, prefix, member) ==
  [py |-> "GEnum", enum_type |-> enum_type, member |-> member,
   value_name |-> prefix \o member,
   value_nick |-> StrReplace(StrLower(member), "_", <<"-">>)]

PyInt(v) == [py |-> "int", v |-> v]

\* a parameter spec
Param(name, pspec, value_type, object_type, default, can_be_none) ==
  [name |-> name, pspec |-> pspec, value_type |-> value_type, object_type |-> object_type,
   default |-> default, can_be_none |-> can_be_none]

P_run_mode(member) ==
  Param(<<"r", "u", "n", "-", "m", "o", "d", "e">>, "GParamEnum", G_run_mode, None,
        EnumValue(RunModeType, S_GIMP_RUN_, member), FALSE)
P_orientation ==
  Param(<<"o", "-", "t">>, "GParamEnum", G_orientation, None,
        EnumValue(OrientationTypeType, S_GIMP_ORIENTATION_, S_VERTICAL), FALSE)
P_int == Param(<<"n", "-", "x">>, "GParamInt", G_int, None, PyInt(0), FALSE)
P_image == Param(<<"i", "m", "a", "g", "e">>, "GimpParamImage", G_image, None, None, TRUE)
P_abyss ==
  Param(<<"a", "b", "y", "s", "s">>, "GeglParamEnum", G_abyss, None,
        EnumValue(AbyssPolicyType, S_GEGL_ABYSS_, S_CLAMP), FALSE)
P_drawables ==
  Param(<<"d", "-", "s">>, "GimpParamCoreObjectArray", G_core_object_array, G_drawable,
        None, FALSE)
P_unnamed == Param(<<"u">>, "GParamBoxed", G_unnamed, None, None, FALSE)

ArgumentSpecs ==
  {P_run_mode(S_INTERACTIVE), P_run_mode(S_NONINTERACTIVE), P_orientation, P_int, P_image,
   P_abyss}

ReturnValueSpecs == {P_image, P_int, P_unnamed, P_drawables}

\* parameter lists: the names within one list are distinct
ParamLists(S, maxLen) ==
  {l \in ListsOver(S, maxLen) : \A i, j \in DOMAIN l : i # j => l[i].name # l[j].name}

\* what pypdb.GimpPDBProcedure / pypdb.GeglProcedure expose of a procedure
Procedure(arguments, return_values) ==
  [arguments |-> arguments, return_values |-> return_values]

----------------------------------------------------------------------------
(* stubgen.py: type hints                                                  *)

\* 'a.b.c' for the parts <<a, b, c>>
RECURSIVE JoinTokens(_, _)
JoinTokens(parts, sep) ==
  IF parts = <<>> THEN <<>>
  ELSE IF Len(parts) = 1 THEN parts[1]
  ELSE parts[1] \o sep \o JoinTokens(Tail(parts), sep)

Dotted(parts) == JoinTokens([i \in DOMAIN parts |-> <<parts[i]>>], <<".">>)

\* module_name.startswith('gi.repository.'), then the rest of it
StripGiRepository(module) ==
  IF Len(module) > 2 /\ module[1] = "gi" /\ module[2] = "repository"
  THEN SubSeq(module, 3, Len(module)) ELSE module

GetFullTypeName(type_) ==
  IF type_.module = <<"builtins">> THEN <<type_.qualname>>
  ELSE Dotted(StripGiRepository(type_.module)) \o <<".", type_.qualname>>

GTYPES_TO_PYTHON_TYPES ==
  [gint |-> <<"int">>, guint |-> <<"int">>, gboolean |-> <<"bool">>, gdouble |-> <<"float">>,
   gchararray |-> <<"str">>, GBytes |-> <<"GLib", ".", "Bytes">>,
   GFile |-> <<"Gio", ".", "File">>, GParam |-> <<"GObject", ".", "ParamSpec">>,
   GStrv |-> <<"list", "[", "str", "]">>]

GetTypeHintNameFromGtype(value_type, default_type) ==
  IF Head(value_type.name) \in {"Gimp", "Gegl"} THEN
    IF value_type.in_module
    THEN <<Head(value_type.name), ".">> \o Tail(value_type.name)
    ELSE default_type
  ELSE IF Head(value_type.name) \in DOMAIN GTYPES_TO_PYTHON_TYPES
    THEN GTYPES_TO_PYTHON_TYPES[Head(value_type.name)]
  ELSE IF value_type.pytype # None THEN GetFullTypeName(value_type.pytype)
  ELSE default_type

IsGeglEnumParam(param) == param.pspec \in {"GeglParamEnum", "GeglParamSpecEnum"}

GetTypeHintName(proc_arg, default_type) ==
  LET value_type == proc_arg.value_type
  IN IF value_type = None \/ value_type.name = <<>> THEN default_type
     ELSE IF IsGeglEnumParam(proc_arg) THEN <<"str">>
     ELSE IF value_type.name = <<"Gimp", "CoreObjectArray">>
       THEN <<"list", "[">>
            \o GetTypeHintNameFromGtype(proc_arg.object_type, default_type) \o <<"]">>
     ELSE GetTypeHintNameFromGtype(value_type, default_type)

CanParamBeNone(param) == param.can_be_none

\* an annotation node: what ast.parse makes of the text of a type name
Annotation(text) == [type |-> "annotation", text |-> text]

GetProcArgumentTypeHint(proc_arg) ==
  LET arg_type_name == GetTypeHintName(proc_arg, <<"GObject", ".", "Value">>)
  IN IF CanParamBeNone(proc_arg)
     THEN Annotation(<<"Optional", "[">> \o arg_type_name \o <<"]">>)
     ELSE Annotation(arg_type_name)

\* a slip: the tuple is built for one return value too
GetPdbReturnValuesTypeHint_AlwaysTuple(proc_return_values) ==
  LET return_type_names ==
        [i \in DOMAIN proc_return_values |-> GetTypeHintName(proc_return_values[i], <<"Any">>)]
  IN IF Len(return_type_names) > 0
       THEN Annotation(<<"tuple", "[">> \o JoinTokens(return_type_names, <<",">>) \o <<"]">>)
     ELSE None

GetPdbReturnValuesTypeHint(proc_return_values) ==
  LET return_type_names ==
        [i \in DOMAIN proc_return_values |-> GetTypeHintName(proc_return_values[i], <<"Any">>)]
  IN IF Len(return_type_names) > 1
       THEN Annotation(<<"tuple", "[">> \o JoinTokens(return_type_names, <<",">>) \o <<"]">>)
     ELSE IF Len(return_type_names) = 1 THEN Annotation(return_type_names[1])
     ELSE None

----------------------------------------------------------------------------
(* stubgen.py: default values                                              *)

GetParamDefaultValue(param) ==
  LET param_default_value == param.default
  IN IF IsGeglEnumParam(param) THEN [py |-> "str", v |-> param_default_value.value_nick]
     \* GObject.GEnum is a subclass of int
     ELSE IF param_default_value # None
             /\ param_default_value.py \in {"int", "float", "bool", "str", "bytes", "GEnum"}
       THEN param_default_value
     ELSE None

\* dir(enum_type): the attribute names in ascending order
Dir(enum_type) ==
  LET names == enum_type.members \cup InheritedAttributes
      RECURSIVE AsList(_)
      AsList(S) == IF S = {} THEN <<>>
                   ELSE LET x == CHOOSE y \in S : TRUE IN <<x>> \o AsList(S \ {x})
  IN Sorted(AsList(names))

\* the qualified name '<module>.<qualname>.<member>'
QualifiedName(module, qualname, member) ==
  [type |-> "QualifiedName", module |-> module, qualname |-> qualname, member |-> member]

GetEnumValueAsString(enum_value) ==
  LET enum_type == enum_value.enum_type
      enum_type_module_name == Dotted(StripGiRepository(enum_type.module))
      enum_value_names_to_try ==
        <<enum_value.value_name, StrUpper(enum_value.value_name),
          StrLower(enum_value.value_name)>>
      names == Dir(enum_type)
      Matches(name) ==
        \E k \in DOMAIN enum_value_names_to_try :
           StrEndsWith(enum_value_names_to_try[k], name)
      found == {i \in DOMAIN names : Matches(names[i])}
  IN IF found # {}
     THEN QualifiedName(enum_type_module_name, enum_type.qualname,
                        names[CHOOSE i \in found : \A j \in found : i <= j])
     ELSE None

\* lines 192-205: the default value node of one argument
ArgDefaultValue(proc_arg) ==
  LET arg_default_value == [type |-> "Constant", value |-> GetParamDefaultValue(proc_arg)]
      proc_arg_default_value == proc_arg.default
  IN IF /\ proc_arg_default_value # None
        /\ proc_arg_default_value.py = "GEnum"
        /\ ~IsGeglEnumParam(proc_arg)
     THEN LET default_value_as_string == GetEnumValueAsString(proc_arg_default_value)
          IN IF default_value_as_string # None THEN default_value_as_string
             ELSE arg_default_value
     ELSE arg_default_value

----------------------------------------------------------------------------
(* stubgen.py: _remove_all_but_attributes_and_super_calls                  *)

\* all(isinstance(target.value, ast.Name) and target.value.id == 'self' for target in targets)
\* yields "True", "False" or "AttributeError"; all() stops at the first false element
RECURSIVE AllTargetsOfSelf(_)
AllTargetsOfSelf(targets) ==
  IF targets = <<>> THEN "True"
  ELSE LET target == Head(targets)
       IN IF "value" \notin DOMAIN target THEN "AttributeError"
          ELSE IF target.value.type = "Name" /\ target.value.id = "self"
               THEN AllTargetsOfSelf(Tail(targets))
               ELSE "False"

\* the verdict of one loop iteration on body_node: "keep", "blank" (keep, value
\* replaced by None), "delete" or "AttributeError"
BodyNodeVerdict(body_node) ==
  IF body_node.type = "Assign" THEN
    LET a == AllTargetsOfSelf(body_node.targets)
    IN IF a = "True" THEN "blank" ELSE IF a = "False" THEN "delete" ELSE a
  ELSE IF body_node.type = "Expr" THEN
    IF body_node.value.type = "Call" THEN
      LET func_name == GetAttrChain(body_node.value, <<"func", "value", "func", "id">>)
      IN IF ~func_name.ok THEN "delete"
         ELSE IF func_name.val # "super" THEN "delete" ELSE "keep"
    ELSE "delete"
  ELSE "delete"

\* the first loop: walks node.body from index, blanking kept assignments in place
RECURSIVE ScanBody(_, _, _, _)
ScanBody(h, node, index, to_delete) ==
  IF index > Len(h[node].body) THEN [heap |-> h, to_delete |-> to_delete, raised |-> FALSE]
  ELSE LET id == h[node].body[index]
           v == BodyNodeVerdict(h[id])
       IN IF v = "AttributeError"
            THEN [heap |-> h, to_delete |-> to_delete, raised |-> TRUE]
          ELSE IF v = "blank"
            THEN ScanBody([h EXCEPT ![id].value = ConstantExpr("None")],
                          node, index + 1, to_delete)
          ELSE IF v = "delete"
            THEN ScanBody(h, node, index + 1, to_delete \cup {index})
          ELSE ScanBody(h, node, index + 1, to_delete)

RemoveAllButAttributesAndSuperCalls(h, node) ==
  LET scan == ScanBody(h, node, 1, {})
  IN IF scan.raised THEN [heap |-> scan.heap, raised |-> TRUE]
     ELSE [heap |-> [scan.heap EXCEPT ![node].body = ListWithout(@, scan.to_delete)],
           raised |-> FALSE]

----------------------------------------------------------------------------
(* _remove_implementation_of_functions, both generators                    *)

\* a slip: the body is emptied instead of holding one Pass
SetBodyToPass_Empty(h, child) ==
  [Append(h, PassStmt) EXCEPT ![child].body = <<>>]

\* child.body = [ast.Pass()]: a new Pass node is allocated
SetBodyToPass(h, child) ==
  [Append(h, PassStmt) EXCEPT ![child].body = <<Len(h) + 1>>]

\* the body of the for loop of stubgen.py
VisitStubgen(h, child) ==
  IF h[child].type = "FunctionDef" THEN
    IF h[child].name = S_init THEN RemoveAllButAttributesAndSuperCalls(h, child)
    ELSE [heap |-> SetBodyToPass(h, child), raised |-> FALSE]
  ELSE [heap |-> h, raised |-> FALSE]

\* the body of the for loop of stubgen_pdb.py
VisitStubgenPdb(h, child) ==
  IF h[child].type = "FunctionDef"
  THEN [heap |-> SetBodyToPass(h, child), raised |-> FALSE]
  ELSE [heap |-> h, raised |-> FALSE]

Visit(gen, h, child) ==
  IF gen = "stubgen" THEN VisitStubgen(h, child) ELSE VisitStubgenPdb(h, child)

\* for child in ast.walk(root_node): ast.walk pops a node from the left of its
\* deque, appends the node's children as they are at that moment, then yields it
RECURSIVE AstWalk(_, _, _)
AstWalk(gen, h, todo) ==
  IF todo = <<>> THEN [heap |-> h, raised |-> FALSE]
  ELSE LET child == Head(todo)
           todo2 == Tail(todo) \o h[child].body
           r == Visit(gen, h, child)
       IN IF r.raised THEN r ELSE AstWalk(gen, r.heap, todo2)

RemoveImplementationOfFunctions(gen, h) == AstWalk(gen, h, <<1>>)

----------------------------------------------------------------------------
(* stubgen.py: generate_pdb_stubs                                          *)

\* pypdb.pdb.canonical_name_to_python_name
CanonicalNameToPythonName(name) ==
  StrReplace(StrReplace(name, "-", <<"_">>), ":", <<"_", "_">>)

ImportStmt(type) == Stmt(type, <<>>, <<>>, <<>>, <<>>, NoExpr)

IsImport(node) == node.type \in {"Import", "ImportFrom"}

\* the first loop of _add_imports: the count it ends with
RECURSIVE LastConsecutiveImportNodeIndex(_, _, _, _)
LastConsecutiveImportNodeIndex(h, i, index, encountered_first_import_node) ==
  IF i > Len(h[1].body) THEN index
  ELSE IF IsImport(h[h[1].body[i]])
    THEN LastConsecutiveImportNodeIndex(h, i + 1, index + 1, TRUE)
  ELSE IF encountered_first_import_node THEN index
  ELSE LastConsecutiveImportNodeIndex(h, i + 1, index, encountered_first_import_node)

\* the three new `from ... import ...` nodes end up, in their order, at the index
AddImports(h) ==
  LET index == LastConsecutiveImportNodeIndex(h, 1, 0, FALSE)
      n == Len(h)
      h2 == h \o <<ImportStmt("ImportFrom"), ImportStmt("ImportFrom"), ImportStmt("ImportFrom")>>
  IN [h2 EXCEPT ![1].body =
        ListInsert(ListInsert(ListInsert(@, index, n + 3), index, n + 2), index, n + 1)]

\* the first class named _PyPDB in the module body, None if there is none
GetPypdbClassNode(h) ==
  LET hits == {i \in DOMAIN h[1].body :
                 h[h[1].body[i]].type = "ClassDef" /\ h[h[1].body[i]].name = S_PyPDB}
  IN IF hits = {} THEN None
     ELSE [type |-> "node", id |-> h[1].body[CHOOSE i \in hits : \A j \in hits : i <= j]]

\* ast.parse of `def <func_name>(self): "" ; pass`: the function node, its
\* docstring statement and its pass statement
CreatePdbProcedureNode(h, procedure_name) ==
  LET func_name == CanonicalNameToPythonName(procedure_name)
      n == Len(h)
  IN [heap |-> h \o << [Stmt("FunctionDef", func_name, <<Arg(S_self, None)>>, <<>>, <<>>, NoExpr)
                          EXCEPT !.body = <<n + 2, n + 3>>],
                       Stmt("Expr", <<>>, <<>>, <<>>, <<>>, ConstantExpr("")),
                       PassStmt >>,
      node |-> n + 1]

\* a slip: the argument is inserted in front of `self`
InsertArgumentNodes_BeforeSelf(node, proc_arg) ==
  [node EXCEPT
     !.args = ListInsert(@, 0, Arg(CanonicalNameToPythonName(proc_arg.name),
                                   GetProcArgumentTypeHint(proc_arg))),
     !.defaults = ListInsert(@, 0, ArgDefaultValue(proc_arg))]

\* one iteration of the argument loop: args.insert(1, ...), defaults.insert(0, ...)
InsertArgumentNodes(node, proc_arg) ==
  [node EXCEPT
     !.args = ListInsert(@, 1, Arg(CanonicalNameToPythonName(proc_arg.name),
                                   GetProcArgumentTypeHint(proc_arg))),
     !.defaults = ListInsert(@, 0, ArgDefaultValue(proc_arg))]

\* for proc_arg in reversed(proc_args), from index i down
RECURSIVE InsertArgumentsReversed(_, _, _)
InsertArgumentsReversed(node, proc_args, i) ==
  IF i = 0 THEN node
  ELSE InsertArgumentsReversed(InsertArgumentNodes(node, proc_args[i]), proc_args, i - 1)

InsertGimpPdbProcedureArguments(procedure_node, procedure) ==
  [InsertArgumentsReversed(procedure_node, procedure.arguments, Len(procedure.arguments))
     EXCEPT !.returns = GetPdbReturnValuesTypeHint(procedure.return_values)]

InsertGeglProcedureArguments(procedure, procedure_node) ==
  [InsertArgumentsReversed(procedure_node, procedure.arguments, Len(procedure.arguments))
     EXCEPT !.returns = None]

InsertGimpPdbProcedureNode(h, pypdb_class_node, procedure_name, info) ==
  LET made == CreatePdbProcedureNode(h, procedure_name)
      procedure == info[procedure_name]
  IN [made.heap EXCEPT
        ![made.node] = InsertGimpPdbProcedureArguments(@, procedure),
        ![pypdb_class_node].body = Append(@, made.node)]

InsertGeglProcedureNode(h, pypdb_class_node, procedure_name, info) ==
  LET made == CreatePdbProcedureNode(h, procedure_name)
      procedure == info[procedure_name]
  IN [made.heap EXCEPT
        ![made.node] = InsertGeglProcedureArguments(procedure, @),
        ![pypdb_class_node].body = Append(@, made.node)]

\* for proc_name in <names>: _insert_gimp_pdb_procedure_node(...)
RECURSIVE InsertGimpPdbProcedureNodes(_, _, _, _)
InsertGimpPdbProcedureNodes(h, pypdb_class_node, names, info) ==
  IF names = <<>> THEN h
  ELSE InsertGimpPdbProcedureNodes(
         InsertGimpPdbProcedureNode(h, pypdb_class_node, Head(names), info),
         pypdb_class_node, Tail(names), info)

RECURSIVE InsertGeglProcedureNodes(_, _, _, _)
InsertGeglProcedureNodes(h, pypdb_class_node, names, info) ==
  IF names = <<>> THEN h
  ELSE InsertGeglProcedureNodes(
         InsertGeglProcedureNode(h, pypdb_class_node, Head(names), info),
         pypdb_class_node, Tail(names), info)

\* a slip: the procedures are inserted in the order the host lists them
OrderOfInsertion_AsListed(names) == names

\* sorted(pypdb.pdb.list_all_...())
OrderOfInsertion(names) == Sorted(names)

\* the whole of generate_pdb_stubs: the heap it leaves and how it ended
GeneratePdbStubsResult(h, file_exists, gimp_names, gegl_names, info) ==
  IF ~file_exists THEN [heap |-> h, status |-> "RuntimeError"]
  ELSE LET stripped == RemoveImplementationOfFunctions("stubgen", AddImports(h))
       IN IF stripped.raised THEN [heap |-> stripped.heap, status |-> "AttributeError"]
          ELSE LET pypdb_class_node == GetPypdbClassNode(stripped.heap)
               IN IF pypdb_class_node = None
                  THEN [heap |-> stripped.heap, status |-> "RuntimeError"]
                  ELSE [heap |->
                          InsertGeglProcedureNodes(
                            InsertGimpPdbProcedureNodes(
                              stripped.heap, pypdb_class_node.id,
                              OrderOfInsertion(gimp_names), info),
                            pypdb_class_node.id, OrderOfInsertion(gegl_names), info),
                        status |-> "written"]

\* the pypdb modules the generator is run on
S_pdb == <<"p", "d", "b">>

PypdbModules ==
  { \* import gi / class _PyPDB: def __init__(self): self.a = 1 / def f(self, x): print()
    \* / x = 1
    BuildHeap(<< ImportStmt("Import"),
                 Stmt("ClassDef", S_PyPDB, <<>>, <<>>, <<>>, NoExpr),
                 Stmt("Assign", <<>>, <<>>, <<>>, <<Name("x")>>, ConstantExpr("1")),
                 Stmt("FunctionDef", S_init, <<Arg(S_self, None)>>, <<>>, <<>>, NoExpr),
                 Stmt("FunctionDef", <<"f">>, <<Arg(S_self, None), Arg(<<"x">>, None)>>,
                      <<"property">>, <<>>, NoExpr),
                 Stmt("Assign", <<>>, <<>>, <<>>, <<Attribute(Name("self"), "a")>>,
                      ConstantExpr("1")),
                 Stmt("Expr", <<>>, <<>>, <<>>, <<>>, Call(Name("print"))) >>,
              <<0, 1, 1, 1, 3, 3, 5, 6>>),
    \* "doc" / class _PyPDB: pass
    BuildHeap(<< Stmt("Expr", <<>>, <<>>, <<>>, <<>>, ConstantExpr("doc")),
                 Stmt("ClassDef", S_PyPDB, <<>>, <<>>, <<>>, NoExpr),
                 PassStmt >>,
              <<0, 1, 1, 3>>),
    \* import gi / class C: pass
    BuildHeap(<< ImportStmt("Import"),
                 Stmt("ClassDef", <<"C">>, <<>>, <<>>, <<>>, NoExpr),
                 PassStmt >>,
              <<0, 1, 1, 3>>),
    \* class _PyPDB: def __init__(self): x = 1
    BuildHeap(<< Stmt("ClassDef", S_PyPDB, <<>>, <<>>, <<>>, NoExpr),
                 Stmt("FunctionDef", S_init, <<Arg(S_self, None)>>, <<>>, <<>>, NoExpr),
                 Stmt("Assign", <<>>, <<>>, <<>>, <<Name("x")>>, ConstantExpr("1")) >>,
              <<0, 1, 2, 3>>) }

GimpProcedureNames == { <<"a", "-", "c">>, <<"a", "B">>, <<"b">> }
GeglOperationNames == { <<"g", ":", "a">>, <<"g", ":", "a", "-", "b">> }

S_proc == <<"p", "-", "x">>
S_op == <<"g", ":", "x">>

\* either several procedures of one fixed shape in any listing order, or one
\* procedure or operation of any shape
StubInit ==
  /\ RegIdle
  /\ LaterIdle
  /\ generator = "stubgen"
  /\ stripStatus = "idle"
  /\ stubStatus = "start"
  /\ \/ /\ heap \in PypdbModules
        /\ pypdbFileExists \in BOOLEAN
        /\ gimpProcs \in ListsOver(GimpProcedureNames, Cardinality(GimpProcedureNames))
        /\ geglOps \in ListsOver(GeglOperationNames, Cardinality(GeglOperationNames))
        /\ procInfo = [n \in GimpProcedureNames \cup GeglOperationNames |->
                         Procedure(<<P_int>>, <<>>)]
     \/ /\ heap \in {m \in PypdbModules : Len(m) = 4 /\ GetPypdbClassNode(m) # None}
        /\ pypdbFileExists = TRUE
        /\ \/ gimpProcs = <<S_proc>> /\ geglOps = <<>>
           \/ gimpProcs = <<>> /\ geglOps = <<S_op>>
        /\ \E arguments \in ParamLists(ArgumentSpecs, MaxArgs),
              return_values \in ParamLists(ReturnValueSpecs, MaxRetvals) :
             procInfo = [n \in {S_proc, S_op} |-> Procedure(arguments, return_values)]
  /\ srcHeap = heap

GeneratePdbStubs ==
  /\ stubStatus = "start"
  /\ LET r == GeneratePdbStubsResult(heap, pypdbFileExists, gimpProcs, geglOps, procInfo)
     IN /\ heap' = r.heap
        /\ stubStatus' = r.status
  /\ UNCHANGED <<generator, srcHeap, stripStatus, pypdbFileExists, gimpProcs, geglOps,
                 procInfo>>
  /\ UNCHANGED regVars
  /\ UNCHANGED laterVars

StubNext == GeneratePdbStubs

SpecStub == StubInit /\ [][StubNext]_vars

StripInit ==
  /\ StubIdle
  /\ RegIdle
  /\ LaterIdle
  /\ generator \in {"stubgen", "stubgen_pdb"}
  /\ heap \in ParsedModules
  /\ srcHeap = heap
  /\ stripStatus = "parsed"

RemoveImplementation ==
  /\ stripStatus = "parsed"
  /\ LET r == RemoveImplementationOfFunctions(generator, heap)
     IN /\ heap' = r.heap
        /\ stripStatus' = IF r.raised THEN "AttributeError" ELSE "done"
  /\ UNCHANGED <<generator, srcHeap>>
  /\ UNCHANGED stubVars
  /\ UNCHANGED regVars
  /\ UNCHANGED laterVars

StripNext == RemoveImplementation

SpecStrip == StripInit /\ [][StripNext]_vars

----------------------------------------------------------------------------
(* wrappers/procedure.py: register_procedure                               *)

MaxCalls == 2   \* register_procedure calls

\* a function object
Function(name) == [type |-> "function", name |-> name]

\* elements of the arguments, return_values and auxiliary_arguments lists
DictParam(name, type) == [kind |-> "dict", has_name |-> TRUE, name |-> name, type |-> type]
DictWithoutName == [kind |-> "dict", has_name |-> FALSE, name |-> <<>>, type |-> "int"]
StrParam(name) == [kind |-> "str", name |-> name]
OtherParam == [kind |-> "int"]

\* a slip: the name is taken as it is
ProcedureName_AsIs(procedure) == procedure.name

\* procedure.__name__.replace('_', '-')
ProcedureName(procedure) == StrReplace(procedure.name, "_", <<"-">>)

\* a slip: the name of a dictionary is taken as it is
DictParamName_AsIs(param) == param.name

\* param.pop('name').replace('_', '-')
DictParamName(param) == StrReplace(param.name, "_", <<"-">>)

\* param.replace('_', '-')
StrParamName(param) == StrReplace(param.name, "_", <<"-">>)

\* the state _parse_and_check_parameters works on and what it returns
ParseState(properties, objects, events, processed, raised) ==
  [properties |-> properties, objects |-> objects, events |-> events,
   processed |-> processed, raised |-> raised]

\* a slip: a string that names no property is skipped
ParseStrParam_Skip(st, param, call) ==
  LET name == StrParamName(param)
  IN IF ~DictHas(st.properties, name) THEN st
     ELSE [st EXCEPT
             !.events = Append(@, [kind |-> "str", call |-> call, raw |-> param.name,
                                   accepted |-> TRUE,
                                   property |-> DictGet(st.properties, name)]),
             !.processed = Dict(DictSet(@.items, name, DictGet(st.properties, name)))]

\* the branch for a string element
ParseStrParam(st, param, call) ==
  LET name == StrParamName(param)
  IN IF ~DictHas(st.properties, name)
     THEN [st EXCEPT
             !.events = Append(@, [kind |-> "str", call |-> call, raw |-> param.name,
                                   accepted |-> FALSE, property |-> 0]),
             !.raised = "ValueError"]
     ELSE [st EXCEPT
             !.events = Append(@, [kind |-> "str", call |-> call, raw |-> param.name,
                                   accepted |-> TRUE,
                                   property |-> DictGet(st.properties, name)]),
             !.processed = Dict(DictSet(@.items, name, DictGet(st.properties, name)))]

\* the branch for a dictionary element
ParseDictParam(st, param, call) ==
  IF ~param.has_name THEN [st EXCEPT !.raised = "ValueError"]
  ELSE
    LET name == DictParamName(param)
        is_new == ~DictHas(st.properties, name)
        \* GObject.Property(**param), param without its 'name'
        objects == IF is_new THEN Append(st.objects, [type |-> param.type]) ELSE st.objects
        properties == IF is_new THEN DictSet(st.properties, name, Len(objects))
                      ELSE st.properties
    IN [st EXCEPT
          !.objects = objects,
          !.properties = properties,
          !.events = Append(@, [kind |-> "dict", call |-> call, raw |-> param.name,
                                type |-> param.type, is_new |-> is_new,
                                property |-> DictGet(properties, name)]),
          !.processed = Dict(DictSet(@.items, name, DictGet(properties, name)))]

\* for param in parameters, from index i
RECURSIVE ParseParameters(_, _, _, _)
ParseParameters(st, parameters, i, call) ==
  IF i > Len(parameters) \/ st.raised # "" THEN st
  ELSE LET param == parameters[i]
       IN ParseParameters(
            IF param.kind = "dict" THEN ParseDictParam(st, param, call)
            ELSE IF param.kind = "str" THEN ParseStrParam(st, param, call)
            ELSE [st EXCEPT !.raised = "TypeError"],
            parameters, i + 1, call)

\* parameters is None, something that is no list-like iterable (or a str), or a
\* list; the dict returned is st.processed, None for None
ParseAndCheckParameters(st, parameters, call) ==
  IF parameters = None THEN [st EXCEPT !.processed = None]
  ELSE IF parameters.type # "list" THEN [st EXCEPT !.raised = "TypeError"]
  ELSE ParseParameters([st EXCEPT !.processed = Dict(<<>>)], parameters.items, 1, call)

\* the whole of register_procedure: the globals it leaves and how it ended.
\* proc_dict holds the keys assigned before an exception, if any.
RegisterProcedureResult(data, properties, objects, events, call, procedure, procedure_type, arguments, return_values, auxiliary_arguments, rest) ==
  LET proc_name == ProcedureName(procedure)
      st0 == ParseState(properties, objects, events, None, "")
  IN IF DictHas(data, proc_name)
     THEN [data |-> data, state |-> st0, raised |-> "ValueError"]
     ELSE
       LET d1 == [procedure |-> procedure, procedure_type |-> procedure_type]
           a == ParseAndCheckParameters(st0, arguments, call)
           d2 == d1 @@ [arguments |-> a.processed]
           r == ParseAndCheckParameters(a, return_values, call)
           d3 == d2 @@ [return_values |-> r.processed] @@
                 [menu_label |-> rest.menu_label, menu_path |-> rest.menu_path,
                  image_types |-> rest.image_types,
                  sensitivity_mask |-> rest.sensitivity_mask,
                  documentation |-> rest.documentation, attribution |-> rest.attribution]
           x == ParseAndCheckParameters(r, auxiliary_arguments, call)
           d4 == d3 @@ [auxiliary_arguments |-> x.processed] @@
                 [run_data |-> rest.run_data, init_ui |-> rest.init_ui,
                  pdb_procedure_type |-> rest.pdb_procedure_type,
                  additional_init |-> rest.additional_init]
       IN IF a.raised # ""
            THEN [data |-> DictSet(data, proc_name, d1), state |-> a, raised |-> a.raised]
          ELSE IF r.raised # ""
            THEN [data |-> DictSet(data, proc_name, d2), state |-> r, raised |-> r.raised]
          ELSE IF x.raised # ""
            THEN [data |-> DictSet(data, proc_name, d3), state |-> x, raised |-> x.raised]
          ELSE [data |-> DictSet(data, proc_name, d4), state |-> x, raised |-> ""]

\* list(_PROCEDURE_NAMES_AND_DATA)
DoQueryProcedures(data) == List(DictKeys(data))

----------------------------------------------------------------------------
(* wrappers/procedure.py: _get_procedure_wrapper                           *)

MaxReturnValues == 2   \* values a registered function returns in a tuple
MaxFormatted == 3      \* length of the array procedure.new_return_values gives

RunMode(v) == [type |-> "Gimp.RunMode", v |-> v]
PDBStatusType(v) == [type |-> "Gimp.PDBStatusType", v |-> v]
Object(v) == [type |-> "object", v |-> v]

\* the closure _get_procedure_wrapper returns
GetProcedureWrapper(func, procedure_type, init_ui) ==
  [type |-> "func_wrapper", func |-> func, procedure_type |-> procedure_type,
   init_ui |-> init_ui]

\* next((config.get_property(prop.name) for prop in config.list_properties()
\*       if prop.name == 'run-mode'), Gimp.RunMode.NONINTERACTIVE)
RECURSIVE ConfigRunMode(_, _)
ConfigRunMode(properties, i) ==
  IF i > Len(properties) THEN RunMode("NONINTERACTIVE")
  ELSE IF properties[i].name = "run-mode" THEN properties[i].value
  ELSE ConfigRunMode(properties, i + 1)

\* a slip: the run mode is always looked up in the config
WrapperRunMode_FromConfig(procedure_type, procedure_and_args) ==
  ConfigRunMode(procedure_and_args[Len(procedure_and_args) - 1].properties, 1)

\* the run mode func_wrapper works with; config is procedure_and_args[-2]
WrapperRunMode(procedure_type, procedure_and_args) ==
  IF procedure_type = "Gimp.ImageProcedure" THEN procedure_and_args[2]
  ELSE ConfigRunMode(procedure_and_args[Len(procedure_and_args) - 1].properties, 1)

\* the list made of what func returned
ReturnValuesAsList(return_values) ==
  IF return_values = None THEN <<>>
  ELSE IF return_values.type # "tuple" THEN <<return_values>>
  ELSE return_values.items

\* for i in reversed(range(1, length)): remove(i), insert(i, return_values[i - 1]);
\* indices here are one more than the Python ones
FillReturnValues(formatted, return_values) ==
  [k \in DOMAIN formatted |->
     IF k >= 2 /\ k - 1 <= Len(return_values) THEN return_values[k - 1] ELSE formatted[k]]

\* the whole of func_wrapper(*procedure_and_args): the calls it makes, in order,
\* and the value array it returns.  return_values is what func returns and
\* defaults what procedure.new_return_values puts after the status.
FuncWrapper(wrapper, procedure_and_args, return_values, defaults) ==
  LET procedure == procedure_and_args[1]
      run_mode == WrapperRunMode(wrapper.procedure_type, procedure_and_args)
      init == IF wrapper.init_ui /\ run_mode = RunMode("INTERACTIVE")
              THEN << <<"GimpUi.init", procedure.name>> >> ELSE <<>>
      call == << <<"func", wrapper.func, procedure_and_args>> >>
      values == ReturnValuesAsList(return_values)
      has_status == values # <<>> /\ values[1].type = "Gimp.PDBStatusType"
      exit_status == IF has_status THEN values[1] ELSE PDBStatusType("SUCCESS")
      rest == IF has_status THEN Tail(values) ELSE values
      is_error == exit_status.v \in {"CALLING_ERROR", "EXECUTION_ERROR"}
      error == IF is_error /\ rest # <<>> THEN <<"GLib.Error", rest[1]>>
               ELSE <<"GLib.Error">>
      new_values == << <<"new_return_values", exit_status, error>> >>
      formatted == <<exit_status>> \o defaults
  IN [events |-> init \o call \o new_values,
      returned |-> IF is_error THEN formatted ELSE FillReturnValues(formatted, rest)]

----------------------------------------------------------------------------
(* wrappers/procedure.py: _do_create_procedure                             *)

\* a slip: the names are walked from the last to the first
AddFromProperties_Reversed(method, parameters) ==
  IF parameters = None THEN <<>>
  ELSE [i \in DOMAIN parameters.items |->
          <<method, parameters.items[Len(parameters.items) + 1 - i].key>>]

\* for name in <dict>: procedure.<method>(plugin_instance, name)
AddFromProperties(method, parameters) ==
  IF parameters = None THEN <<>>
  ELSE [i \in DOMAIN parameters.items |-> <<method, parameters.items[i].key>>]

\* the menu path calls, or the TypeError of a value that is no str and no iterable
MenuPathCalls(menu_path) ==
  IF menu_path = None THEN <<>>
  ELSE IF menu_path.type = "str" THEN << <<"add_menu_path", menu_path.v>> >>
  ELSE [i \in DOMAIN menu_path.items |-> <<"add_menu_path", menu_path.items[i]>>]

\* a slip: the help ID is appended to every documentation tuple
DocumentationCalls_AlwaysAppend(documentation, proc_name) ==
  IF documentation = None THEN <<>>
  ELSE << <<"set_documentation", documentation.items \o <<proc_name>> >> >>

\* the set_documentation call for a documentation of 2 or 3 elements
DocumentationCalls(documentation, proc_name) ==
  IF documentation = None THEN <<>>
  ELSE IF Len(documentation.items) = 2
    THEN << <<"set_documentation", documentation.items \o <<proc_name>> >> >>
  ELSE << <<"set_documentation", documentation.items>> >>

\* the whole of _do_create_procedure: what it returns or raises, and the calls
\* it made on the new procedure, in order
DoCreateProcedure(data, proc_name) ==
  IF ~DictHas(data, proc_name) THEN [outcome |-> "None", log |-> <<>>, returned |-> None]
  ELSE
    LET proc_dict == DictGet(data, proc_name)
    IN IF "pdb_procedure_type" \notin DOMAIN proc_dict
       THEN [outcome |-> "KeyError", log |-> <<>>, returned |-> None]
       ELSE
         LET new == << <<"new", proc_name, proc_dict.procedure_type,
                         proc_dict.pdb_procedure_type,
                         GetProcedureWrapper(proc_dict.procedure, proc_dict.procedure_type,
                                             proc_dict.init_ui),
                         proc_dict.run_data>> >>
             params ==
               AddFromProperties("add_argument_from_property", proc_dict.arguments)
               \o AddFromProperties("add_return_value_from_property", proc_dict.return_values)
               \o AddFromProperties("add_aux_argument_from_property",
                                    proc_dict.auxiliary_arguments)
             label == IF proc_dict.menu_label # None
                      THEN << <<"set_menu_label", proc_dict.menu_label>> >> ELSE <<>>
             menu_path == proc_dict.menu_path
             menu_path_ok == menu_path = None \/ menu_path.type \in {"str", "list"}
             types == IF proc_dict.image_types # None
                      THEN << <<"set_image_types", proc_dict.image_types>> >> ELSE <<>>
             mask == IF proc_dict.sensitivity_mask # None
                     THEN << <<"set_sensitivity_mask", proc_dict.sensitivity_mask>> >>
                     ELSE <<>>
             documentation == proc_dict.documentation
             documentation_ok == documentation = None \/ Len(documentation.items) \in {2, 3}
             attribution == IF proc_dict.attribution # None
                            THEN << <<"set_attribution", proc_dict.attribution.items>> >>
                            ELSE <<>>
             \* the object procedure_type.new(...) returned
             procedure == [type |-> proc_dict.procedure_type, name |-> proc_name]
             init == IF proc_dict.additional_init # None
                     THEN << <<"additional_init", proc_dict.additional_init, procedure>> >>
                     ELSE <<>>
         IN IF ~menu_path_ok
              THEN [outcome |-> "TypeError", log |-> new \o params \o label, returned |-> None]
            ELSE IF ~documentation_ok
              THEN [outcome |-> "ValueError",
                    log |-> new \o params \o label \o MenuPathCalls(menu_path)
                            \o types \o mask,
                    returned |-> None]
            ELSE [outcome |-> "procedure",
                  log |-> new \o params \o label \o MenuPathCalls(menu_path) \o types
                          \o mask \o DocumentationCalls(documentation, proc_name)
                          \o attribution \o init,
                  returned |-> procedure]

----------------------------------------------------------------------------
(* The plug-in: registrations, then the host's queries and creations       *)

S_a_b == <<"a", "_", "b">>
S_a_hyphen_b == <<"a", "-", "b">>

Callables == {Function(<<"f", "_", "a">>), Function(<<"g">>), Function(<<"h", "_", "_", "x">>)}

\* the arguments, return_values and auxiliary_arguments of one call
ParameterChoices ==
  { <<None, None, None>>,
    <<List(<<DictParam(S_a_b, "int")>>), None, None>>,
    <<List(<<DictParam(S_a_b, "int"), StrParam(S_a_b)>>), List(<<StrParam(S_a_hyphen_b)>>),
      None>>,
    <<List(<<StrParam(S_a_b)>>), None, List(<<StrParam(<<"c">>)>>)>>,
    <<List(<<StrParam(S_a_hyphen_b), DictParam(<<"c">>, "str")>>),
      List(<<DictParam(S_a_hyphen_b, "str")>>), List(<<StrParam(<<"c">>)>>)>>,
    <<List(<<DictParam(<<"c">>, "int"), OtherParam>>), None, None>>,
    <<None, Str("abc"), None>>,
    <<None, None, List(<<DictParam(S_a_b, "int"), DictWithoutName>>)>> }

\* the remaining keyword arguments of a call
Rest(menu_label, menu_path, image_types, sensitivity_mask, documentation, attribution, run_data, init_ui, additional_init) ==
  [menu_label |-> menu_label, menu_path |-> menu_path, image_types |-> image_types,
   sensitivity_mask |-> sensitivity_mask, documentation |-> documentation,
   attribution |-> attribution, run_data |-> run_data, init_ui |-> init_ui,
   pdb_procedure_type |-> "PLUGIN", additional_init |-> additional_init]

DefaultRest == Rest(None, None, None, None, None, None, None, TRUE, None)

S_blurb == <<"b", "l", "u", "r", "b">>
S_help == <<"h", "e", "l", "p">>
S_id == <<"i", "d">>

Documentations ==
  { None, Tuple(<<>>), Tuple(<<S_blurb>>), Tuple(<<S_blurb, S_help>>),
    Tuple(<<S_blurb, S_help, S_id>>), Tuple(<<S_blurb, S_help, S_id, S_id>>) }

MenuPaths ==
  { None, Str("<Image>/Filters"), List(<<"<Image>/Filters", "<Image>/Tools">>),
    [type |-> "int", v |-> 5] }

RestChoices ==
  { Rest(menu_label, menu_path, Str("*"), None, documentation, attribution, None, TRUE,
         additional_init) :
      menu_label \in {None, Str("Label")}, menu_path \in MenuPaths,
      documentation \in Documentations,
      attribution \in {None, Tuple(<<"author", "copyright", "date">>)},
      additional_init \in {None, Function(<<"i">>)} }

RegInit ==
  /\ StripIdle
  /\ StubIdle
  /\ RegIdle
  /\ LaterIdle

RegisterProcedure(procedure, procedure_type, arguments, return_values, auxiliary_arguments, rest) ==
  LET r == RegisterProcedureResult(
             procedureNamesAndData, pluginProperties, propertyObjects, paramEvents,
             Len(calls) + 1, procedure, procedure_type, arguments, return_values,
             auxiliary_arguments, rest)
  IN /\ procedureNamesAndData' = r.data
     /\ pluginProperties' = r.state.properties
     /\ propertyObjects' = r.state.objects
     /\ paramEvents' = r.state.events
     /\ calls' = Append(calls, [procedure |-> procedure, arguments |-> arguments,
                                return_values |-> return_values,
                                auxiliary_arguments |-> auxiliary_arguments,
                                rest |-> rest, raised |-> r.raised])
     /\ UNCHANGED <<queried, created, ran>>
     /\ UNCHANGED stripVars
     /\ UNCHANGED stubVars
     /\ UNCHANGED laterVars

QueryProcedures ==
  /\ queried' = DoQueryProcedures(procedureNamesAndData)
  /\ UNCHANGED <<procedureNamesAndData, pluginProperties, propertyObjects, calls,
                 paramEvents, created, ran>>
  /\ UNCHANGED stripVars
  /\ UNCHANGED stubVars
  /\ UNCHANGED laterVars

CreateProcedure(proc_name) ==
  /\ created' = [proc_name |-> proc_name] @@ DoCreateProcedure(procedureNamesAndData, proc_name)
  /\ UNCHANGED <<procedureNamesAndData, pluginProperties, propertyObjects, calls,
                 paramEvents, queried, ran>>
  /\ UNCHANGED stripVars
  /\ UNCHANGED stubVars
  /\ UNCHANGED laterVars

\* the plug-in script registers its procedures with any parameter lists
RegisterWithParameters ==
  /\ Len(calls) < MaxCalls
  /\ \E procedure \in Callables, choice \in ParameterChoices :
       RegisterProcedure(procedure, "Gimp.ImageProcedure", choice[1], choice[2], choice[3],
                         DefaultRest)

\* the plug-in script registers a procedure with any other keyword arguments
RegisterWithRest ==
  /\ calls = <<>>
  /\ \E procedure \in Callables, rest \in RestChoices :
       RegisterProcedure(procedure, "Gimp.Procedure",
                         List(<<DictParam(S_a_b, "int"), DictParam(<<"c">>, "int")>>),
                         List(<<DictParam(<<"r">>, "int")>>), None, rest)

HostCreatesProcedure ==
  \E procedure \in Callables : CreateProcedure(ProcedureName(procedure))

\* ---- the host runs a created procedure

RunModes == {RunMode("INTERACTIVE"), RunMode("NONINTERACTIVE"), RunMode("WITH_LAST_VALS")}

ConfigProperty(name, value) == [name |-> name, value |-> value]

\* what config.list_properties() and config.get_property() show
Configs ==
  { [type |-> "Gimp.ProcedureConfig", properties |-> properties] :
      properties \in
        {<<>>, <<ConfigProperty("procedure", Object("p"))>>}
        \cup { <<ConfigProperty("procedure", Object("p")), ConfigProperty("run-mode", m)>> :
                 m \in RunModes } }

\* what the registered function returns
ReturnValueItems == {PDBStatusType("SUCCESS"), PDBStatusType("EXECUTION_ERROR"), Object("v")}

FunctionResults ==
  {None} \cup ReturnValueItems
  \cup { Tuple(items) : items \in ListsOver(ReturnValueItems, MaxReturnValues) }

\* the defaults procedure.new_return_values puts after the status
ReturnDefaults ==
  { [k \in 1..n |-> Object("default")] : n \in 0..(MaxFormatted - 1) }

\* the plug-in script registers one procedure of either kind, with or without init_ui
RegisterForRun ==
  /\ calls = <<>>
  /\ \E procedure \in Callables, procedure_type \in {"Gimp.ImageProcedure", "Gimp.Procedure"},
        init_ui \in BOOLEAN :
       RegisterProcedure(procedure, procedure_type, None, None, None,
                         [DefaultRest EXCEPT !.init_ui = init_ui])

RunProcedure(wrapper, procedure_and_args, return_values, defaults) ==
  /\ ran' = [wrapper |-> wrapper, procedure_and_args |-> procedure_and_args]
            @@ FuncWrapper(wrapper, procedure_and_args, return_values, defaults)
  /\ UNCHANGED <<procedureNamesAndData, pluginProperties, propertyObjects, calls,
                 paramEvents, queried, created>>
  /\ UNCHANGED stripVars
  /\ UNCHANGED stubVars
  /\ UNCHANGED laterVars

\* the host calls the run function it was given at creation: for an image procedure
\* with (procedure, run_mode, image, drawables, config, run_data), otherwise
\* with (procedure, config, run_data)
HostRunsProcedure ==
  /\ created # None
  /\ created.outcome = "procedure"
  /\ LET wrapper == created.log[1][5]
         procedure == [type |-> wrapper.procedure_type, name |-> created.proc_name]
     IN \E run_mode \in RunModes, config \in Configs, return_values \in FunctionResults,
           defaults \in ReturnDefaults :
          RunProcedure(
            wrapper,
            IF wrapper.procedure_type = "Gimp.ImageProcedure"
            THEN <<procedure, run_mode, Object("image"), Object("drawables"), config, None>>
            ELSE <<procedure, config, None>>,
            return_values, defaults)

RunNext ==
  \/ RegisterForRun
  \/ HostCreatesProcedure
  \/ HostRunsProcedure

SpecRun == RegInit /\ [][RunNext]_vars

Next ==
  \/ RegisterWithParameters
  \/ QueryProcedures
  \/ HostCreatesProcedure

Spec == RegInit /\ [][Next]_vars

CreateNext ==
  \/ RegisterWithRest
  \/ QueryProcedures
  \/ HostCreatesProcedure

SpecCreate == RegInit /\ [][CreateNext]_vars

\* ---- the order of the calls _do_create_procedure makes

OrderArguments ==
  { None,
    List(<<DictParam(<<"c">>, "int"), DictParam(S_a_b, "int")>>),
    List(<<DictParam(S_a_b, "int"), DictParam(<<"c">>, "int"), StrParam(S_a_b)>>) }

OrderReturnValues ==
  { None,
    List(<<DictParam(<<"r">>, "int")>>),
    List(<<DictParam(<<"r">>, "int"), DictParam(S_a_hyphen_b, "int")>>) }

OrderAuxiliaryArguments ==
  { None, List(<<DictParam(<<"x">>, "int"), StrParam(<<"r">>), DictParam(<<"c">>, "int")>>) }

\* the plug-in script registers a procedure with lists of every kind
RegisterForOrder ==
  /\ calls = <<>>
  /\ \E arguments \in OrderArguments, return_values \in OrderReturnValues,
        auxiliary_arguments \in OrderAuxiliaryArguments, rest \in RestChoices :
       RegisterProcedure(Function(<<"g">>), "Gimp.Procedure", arguments, return_values,
                         auxiliary_arguments, rest)

OrderNext ==
  \/ RegisterForOrder
  \/ HostCreatesProcedure

SpecOrder == RegInit /\ [][OrderNext]_vars

----------------------------------------------------------------------------
(* wrappers/procedure.py: set_use_locale, set_init_procedures_func,        *)
(* set_quit_func and _create_plugin_class                                  *)

MaxSetCalls == 3   \* set_init_procedures_func and set_quit_func calls

Bool(v) == [type |-> "bool", v |-> v]

\* a callable object whose truth value is false
FalsyCallable == [type |-> "callable", name |-> <<"o">>]

\* the truth value Python gives a value
IsTruthy(value) ==
  IF value = None THEN FALSE
  ELSE IF value.type = "bool" THEN value.v
  ELSE IF value.type = "str" THEN value.v # ""
  ELSE value # FalsyCallable

S_do_query_procedures ==
  <<"d", "o", "_", "q", "u", "e", "r", "y", "_",
    "p", "r", "o", "c", "e", "d", "u", "r", "e", "s">>
S_do_create_procedure ==
  <<"d", "o", "_", "c", "r", "e", "a", "t", "e", "_",
    "p", "r", "o", "c", "e", "d", "u", "r", "e">>
S_do_set_i18n == <<"d", "o", "_", "s", "e", "t", "_", "i", "1", "8", "n">>
S_do_init_procedures ==
  <<"d", "o", "_", "i", "n", "i", "t", "_",
    "p", "r", "o", "c", "e", "d", "u", "r", "e", "s">>
S_do_quit == <<"d", "o", "_", "q", "u", "i", "t">>
S_disable_locale ==
  <<"_", "d", "i", "s", "a", "b", "l", "e", "_", "l", "o", "c", "a", "l", "e">>

\* the GObject.Property object at an index of propertyObjects
PropertyObject(index) == [type |-> "GObject.Property", object |-> index]

\* for name, gobject_property in _PLUGIN_PROPERTIES.items():
\*   class_dict[name.replace('-', '_')] = gobject_property
RECURSIVE ClassDictOfProperties(_, _, _)
ClassDictOfProperties(class_dict, properties, i) ==
  IF i > Len(properties) THEN class_dict
  ELSE ClassDictOfProperties(
         DictSet(class_dict, StrReplace(properties[i].key, "-", <<"_">>),
                 PropertyObject(properties[i].value)),
         properties, i + 1)

\* a slip: the callback is installed whether it is set or not
InstallCallback_Always(class_dict, key, func) == DictSet(class_dict, key, func)

\* if _INIT_PROCEDURES_FUNC: class_dict['do_init_procedures'] = _INIT_PROCEDURES_FUNC
\* (and the same for _QUIT_FUNC)
InstallCallback(class_dict, key, func) ==
  IF IsTruthy(func) THEN DictSet(class_dict, key, func) ELSE class_dict

\* the whole of _create_plugin_class()
CreatePluginClassResult(properties, use_locale, init_procedures_func, quit_func) ==
  LET d1 == ClassDictOfProperties(<<>>, properties, 1)
      d2 == DictSet(d1, S_do_query_procedures, Function(<<"_">> \o S_do_query_procedures))
      d3 == DictSet(d2, S_do_create_procedure, Function(<<"_">> \o S_do_create_procedure))
      d4 == IF ~use_locale THEN DictSet(d3, S_do_set_i18n, Function(S_disable_locale))
            ELSE d3
      d5 == InstallCallback(d4, S_do_init_procedures, init_procedures_func)
      d6 == InstallCallback(d5, S_do_quit, quit_func)
  IN [type |-> "type", name |-> "PyPlugIn", bases |-> <<"Gimp.PlugIn">>, class_dict |-> d6]

\* what a plug-in script passes to the setters
FuncChoices == {None, Function(<<"g">>), Function(<<"i">>), FalsyCallable}
EnabledChoices == {None, Bool(TRUE), Bool(FALSE), Str(""), Str("yes")}

\* set_use_locale(enabled)
SetUseLocale ==
  /\ pluginClass = None
  /\ \E enabled \in EnabledChoices : useLocale' = IsTruthy(enabled)
  /\ UNCHANGED <<initProceduresFunc, quitFunc, setCalls, pluginClass>>
  /\ UNCHANGED notPlugVars

\* set_init_procedures_func(func)
SetInitProceduresFunc ==
  /\ pluginClass = None
  /\ Len(setCalls) < MaxSetCalls
  /\ \E func \in FuncChoices :
       /\ initProceduresFunc' = func
       /\ setCalls' = Append(setCalls, [function |-> "set_init_procedures_func",
                                        func |-> func])
  /\ UNCHANGED <<useLocale, quitFunc, pluginClass>>
  /\ UNCHANGED notPlugVars

\* set_quit_func(func)
SetQuitFunc ==
  /\ pluginClass = None
  /\ Len(setCalls) < MaxSetCalls
  /\ \E func \in FuncChoices :
       /\ quitFunc' = func
       /\ setCalls' = Append(setCalls, [function |-> "set_quit_func", func |-> func])
  /\ UNCHANGED <<useLocale, initProceduresFunc, pluginClass>>
  /\ UNCHANGED notPlugVars

\* the plug-in script registers a procedure before it calls main()
RegisterForPlugin ==
  /\ pluginClass = None
  /\ calls = <<>>
  /\ \E arguments \in {None, List(<<DictParam(S_a_b, "int"), DictParam(<<"c">>, "str")>>)} :
       RegisterProcedure(Function(<<"g">>), "Gimp.ImageProcedure", arguments, None, None,
                         DefaultRest)

\* main(): PyPlugIn = _create_plugin_class(), then the host takes over
Main ==
  /\ pluginClass = None
  /\ pluginClass' = CreatePluginClassResult(pluginProperties, useLocale,
                                            initProceduresFunc, quitFunc)
  /\ UNCHANGED <<useLocale, initProceduresFunc, quitFunc, setCalls>>
  /\ UNCHANGED notPlugVars

PluginNext ==
  \/ SetUseLocale
  \/ SetInitProceduresFunc
  \/ SetQuitFunc
  \/ RegisterForPlugin
  \/ Main

SpecPlugin == RegInit /\ [][PluginNext]_vars

----------------------------------------------------------------------------
(* pdb-wrapper/pypdb.py: _PyPDB and PyPDBProcedure                         *)

MaxPdbCalls == 3   \* calls made through the wrappers

\* what _gimp_pdb.lookup_procedure(name).get_arguments() gives for the
\* procedures of the host
HostProcedures ==
  << [key |-> <<"p", "-", "a">>, value |-> <<P_run_mode(S_NONINTERACTIVE), P_image>>],
     [key |-> <<"p", "-", "b">>, value |-> <<P_image, P_run_mode(S_NONINTERACTIVE)>>],
     [key |-> <<"p", "-", "c">>, value |-> <<>>],
     [key |-> <<"p", "-", "d">>, value |-> <<P_unnamed, P_int>>],
     [key |-> <<"p", "-", "e">>, value |-> <<P_orientation>>] >>

\* the attribute names a script uses on a _PyPDB object
PdbAttributeNames == { StrReplace(DictKeys(HostProcedures)[i], "-", <<"_">>) :
                       i \in DOMAIN HostProcedures }

\* PyPDBProcedure._get_has_run_mode
GetHasRunMode(proc_arg_info) ==
  IF proc_arg_info # <<>> /\ proc_arg_info[1].value_type.pytype # None
  THEN proc_arg_info[1].value_type.pytype = PyType(<<"gi", "repository", "Gimp">>, "RunMode")
  ELSE FALSE

\* a slip: the run mode is passed to every procedure
HostCalls_AlwaysRunMode(name, has_run_mode, args, run_mode, config) ==
  IF config = None THEN << <<"run_procedure", name, <<run_mode>> \o args>> >>
  ELSE << <<"run_procedure_config", name, config>> >>

\* the call __call__ makes on the host's PDB
HostCalls(name, has_run_mode, args, run_mode, config) ==
  IF config = None
  THEN IF has_run_mode THEN << <<"run_procedure", name, <<run_mode>> \o args>> >>
       ELSE << <<"run_procedure", name, args>> >>
  ELSE << <<"run_procedure_config", name, config>> >>

\* a Gimp.ValueArray
ValueArray(items) == [type |-> "Gimp.ValueArray", items |-> items]

\* a slip: what remains is always returned as a list
ReturnValueOf_AlwaysList(result_list) ==
  IF result_list = <<>> THEN None ELSE List(result_list)

\* the end of __call__: if result_list: ... else: return None
ReturnValueOf(result_list) ==
  IF result_list = <<>> THEN None
  ELSE IF Len(result_list) = 1 THEN result_list[1]
  ELSE List(result_list)

\* __call__ from `if result is None` on: the wrapper's fields afterwards and
\* the value returned
ProcessResult(last_status, last_error, result) ==
  IF result = None
  THEN [last_status |-> last_status, last_error |-> last_error, returned |-> None]
  ELSE
    LET result_list == result.items
        has_status == result_list # <<>> /\ result_list[1].type = "Gimp.PDBStatusType"
        status == IF has_status THEN result_list[1] ELSE last_status
        after_status == IF has_status THEN Tail(result_list) ELSE result_list
        is_ok == status \in {PDBStatusType("SUCCESS"), PDBStatusType("PASS_THROUGH")}
        error == IF after_status = <<>> THEN last_error
                 ELSE IF is_ok THEN None
                 ELSE after_status[1]
        after_error == IF after_status # <<>> /\ ~is_ok THEN Tail(after_status)
                       ELSE after_status
    IN [last_status |-> status, last_error |-> error, returned |-> ReturnValueOf(after_error)]

\* pdb_wrapper.<attribute>(*args, run_mode=..., config=...): __getattr__ finds or
\* makes the PyPDBProcedure (its _has_run_mode is fixed by the host's
\* procedure), then __call__ runs; result is what the host returns
PdbCall(wrapper, attribute, args, run_mode, config, result) ==
  LET proc_name == StrReplace(attribute, "_", <<"-">>)
      has_run_mode == GetHasRunMode(DictGet(HostProcedures, proc_name))
      r == ProcessResult(lastStatus[wrapper], lastError[wrapper], result)
  IN /\ Len(pdbHistory) < MaxPdbCalls
     /\ lastStatus' = [lastStatus EXCEPT ![wrapper] = r.last_status]
     /\ lastError' = [lastError EXCEPT ![wrapper] = r.last_error]
     /\ pdbHistory' = Append(pdbHistory, [wrapper |-> wrapper, result |-> result,
                                          returned |-> r.returned])
     /\ pdbCall' = [name |-> proc_name, args |-> args, run_mode |-> run_mode,
                    config |-> config, has_run_mode |-> has_run_mode,
                    host |-> HostCalls(proc_name, has_run_mode, args, run_mode, config)]
     /\ UNCHANGED notPdbVars

\* what the host may return
ResultChoices ==
  { None, ValueArray(<<>>),
    ValueArray(<<PDBStatusType("SUCCESS")>>),
    ValueArray(<<PDBStatusType("SUCCESS"), Object("v")>>),
    ValueArray(<<PDBStatusType("SUCCESS"), Object("v"), Object("w")>>),
    ValueArray(<<PDBStatusType("EXECUTION_ERROR"), Str("message")>>),
    ValueArray(<<PDBStatusType("PASS_THROUGH")>>),
    ValueArray(<<Object("v"), Object("w")>>) }

\* a script calls procedures through the wrappers; the host answers anything
CallForResult ==
  \E wrapper \in PyPDBs, result \in ResultChoices :
    PdbCall(wrapper, <<"p", "_", "c">>, <<>>, RunMode("NONINTERACTIVE"), None, result)

PdbNext == CallForResult

SpecPdb == RegInit /\ [][PdbNext]_vars

\* a script calls any procedure with any arguments
CallWithArguments ==
  \E attribute \in PdbAttributeNames,
     args \in {<<>>, <<Object("image")>>, <<Object("image"), Object("layer")>>},
     run_mode \in {RunMode("NONINTERACTIVE"), RunMode("INTERACTIVE")},
     config \in {None, [type |-> "Gimp.ProcedureConfig", properties |-> <<>>]},
     result \in {None, ValueArray(<<PDBStatusType("SUCCESS"), Object("v")>>)} :
    PdbCall("pdb", attribute, args, run_mode, config, result)

DispatchNext == CallWithArguments

SpecDispatch == RegInit /\ [][DispatchNext]_vars

----------------------------------------------------------------------------
(* The plug-in procedure generate_pdb_stubs, as generate-pdb-stubs.py and  *)
(* the older pdb-wrapper.py define it.  A run shows the dialog in the      *)
(* interactive run mode and waits in dialog.run() for the user; the calls  *)
(* the run makes on GimpUi, the dialog and the stub generator are recorded *)
(* in the order they are made.                                             *)

MaxGenRuns == 2   \* runs of the plug-in procedure

\* the two plug-ins that define generate_pdb_stubs
GenPlugins == {"generate-pdb-stubs.py", "pdb-wrapper.py"}

\* the property that holds the output location
OutputProperty(plugin) ==
  IF plugin = "generate-pdb-stubs.py" THEN "output-directory" ELSE "output-filepath"

\* stubgen.MODULE_DIRPATH, stubgen_pdb.STUB_MODULE_FILEPATH
DefaultLocation(plugin) ==
  IF plugin = "generate-pdb-stubs.py" THEN Str("stubgen.MODULE_DIRPATH")
  ELSE Str("stubgen_pdb.STUB_MODULE_FILEPATH")

\* what config.get_property('output-directory').get_path() and
\* config.get_property('output-filepath') give: no path, the empty string, a path
Locations == {None, Str(""), Str("/out")}

\* a slip: the location is used as it was given
OutputLocation_AsGiven(plugin, location) == location

\* if not output_dirpath: output_dirpath = stubgen.MODULE_DIRPATH
OutputLocation(plugin, location) ==
  IF location = None \/ location = Str("") THEN DefaultLocation(plugin) ELSE location

\* the calls up to dialog.run()
DialogCalls(plugin) ==
  << <<"GimpUi.init", "generate-pdb-stubs">>,
     <<"GimpUi.ProcedureDialog">>,
     <<"dialog.fill", <<OutputProperty(plugin)>> >>,
     <<"dialog.run">> >>

\* the end of a run, from the line after the dialog on: the stub generator is
\* called with the location; it returns or raises (the pypdb module is missing)
GenerateAndReturn(run, generation) ==
  LET path == OutputLocation(run.plugin, run.location)
  IN [run EXCEPT !.events = @ \o << <<"generate_pdb_stubs", path>> >>,
                 !.returned = IF generation = "written" THEN PDBStatusType("SUCCESS")
                              ELSE [type |-> "raised", v |-> generation]]

\* a run in the state before its first line
NewRun(plugin, run_mode, location) ==
  [plugin |-> plugin, run_mode |-> run_mode, location |-> location,
   is_ok_pressed |-> None, events |-> <<>>, returned |-> None]

GenerationOutcomes == {"written", "RuntimeError"}

\* the host runs the procedure: in the interactive run mode the run goes as far
\* as dialog.run(), in any other run mode it goes to its end
RunGeneratePdbStubs ==
  \E plugin \in GenPlugins, run_mode \in RunModes, location \in Locations,
     generation \in GenerationOutcomes :
    /\ genRun = None
    /\ Len(genRuns) < MaxGenRuns
    /\ IF run_mode = RunMode("INTERACTIVE")
       THEN /\ generation = "written"
            /\ genRun' = [NewRun(plugin, run_mode, location) EXCEPT
                            !.events = DialogCalls(plugin)]
            /\ UNCHANGED genRuns
       ELSE /\ genRuns' = Append(genRuns,
                            GenerateAndReturn(NewRun(plugin, run_mode, location), generation))
            /\ UNCHANGED genRun
    /\ UNCHANGED notGenVars

\* dialog.run() returns: the dialog is destroyed, then the run either returns
\* CANCEL or goes on to the generation
DialogRun ==
  \E is_ok_pressed \in BOOLEAN, generation \in GenerationOutcomes :
    /\ genRun # None
    /\ LET destroyed == [genRun EXCEPT !.is_ok_pressed = Bool(is_ok_pressed),
                                       !.events = @ \o << <<"dialog.destroy">> >>]
       IN IF is_ok_pressed
          THEN genRuns' = Append(genRuns, GenerateAndReturn(destroyed, generation))
          ELSE /\ generation = "written"
               /\ genRuns' = Append(genRuns,
                               [destroyed EXCEPT !.returned = PDBStatusType("CANCEL")])
    /\ genRun' = None
    /\ UNCHANGED notGenVars

GenNext == RunGeneratePdbStubs \/ DialogRun

SpecGen == RegInit /\ [][GenNext]_vars

----------------------------------------------------------------------------
(* stubgen.py: _remove_all_but_attributes_and_super_calls on the bodies an *)
(* __init__ method can have                                                *)

MaxInitBody == 3   \* statements in the body of __init__

\* the statements the body of an __init__ method is drawn from
InitStmts ==
  { PassStmt,
    Stmt("Return", <<>>, <<>>, <<>>, <<>>, NoExpr),
    \* self.a = 1
    Stmt("Assign", <<>>, <<>>, <<>>, <<Attribute(Name("self"), "a")>>, ConstantExpr("1")),
    \* self.a = self.b = 1
    Stmt("Assign", <<>>, <<>>, <<>>,
         <<Attribute(Name("self"), "a"), Attribute(Name("self"), "b")>>, ConstantExpr("1")),
    \* self.a = x = 1
    Stmt("Assign", <<>>, <<>>, <<>>, <<Attribute(Name("self"), "a"), Name("x")>>,
         ConstantExpr("1")),
    \* x = 1
    Stmt("Assign", <<>>, <<>>, <<>>, <<Name("x")>>, ConstantExpr("1")),
    \* a, b = 1
    Stmt("Assign", <<>>, <<>>, <<>>, <<TupleExpr>>, ConstantExpr("1")),
    \* self.a.b = 1
    Stmt("Assign", <<>>, <<>>, <<>>, <<Attribute(Attribute(Name("self"), "a"), "b")>>,
         ConstantExpr("1")),
    \* other.a = 1
    Stmt("Assign", <<>>, <<>>, <<>>, <<Attribute(Name("other"), "a")>>, ConstantExpr("1")),
    \* self.a[0] = 1
    Stmt("Assign", <<>>, <<>>, <<>>, <<Subscript(Attribute(Name("self"), "a"))>>,
         ConstantExpr("1")),
    \* super().__init__()
    Stmt("Expr", <<>>, <<>>, <<>>, <<>>, Call(Attribute(Call(Name("super")), "__init__"))),
    \* self.f()
    Stmt("Expr", <<>>, <<>>, <<>>, <<>>, Call(Attribute(Name("self"), "f"))),
    \* print()
    Stmt("Expr", <<>>, <<>>, <<>>, <<>>, Call(Name("print"))),
    \* 'text'
    Stmt("Expr", <<>>, <<>>, <<>>, <<>>, ConstantExpr("text")) }

InitBodies == UNION { [1..n -> InitStmts] : n \in 1..MaxInitBody }

\* the parsed module  class _PyPDB:  def __init__(self): <body>
InitModule(body) ==
  << [ModuleNode EXCEPT !.body = <<2>>],
     [Stmt("ClassDef", S_PyPDB, <<>>, <<>>, <<>>, NoExpr) EXCEPT !.body = <<3>>],
     [Stmt("FunctionDef", S_init, <<Arg(S_self, None)>>, <<>>, <<>>, NoExpr)
        EXCEPT !.body = [i \in 1..Len(body) |-> i + 3]] >> \o body

InitBodyInit ==
  /\ StubIdle
  /\ RegIdle
  /\ LaterIdle
  /\ generator = "stubgen"
  /\ heap \in { InitModule(body) : body \in InitBodies }
  /\ srcHeap = heap
  /\ stripStatus = "parsed"

SpecInitBody == InitBodyInit /\ [][StripNext]_vars

----------------------------------------------------------------------------
(* stubgen.py: the docstring of a GIMP PDB procedure.  A str is a sequence *)
(* of pieces; a newline is always a piece of its own, and the texts that   *)
(* the code measures or takes apart (blurb, help, indentation) are held    *)
(* in single characters.                                                   *)

MaxMenuPaths == 2   \* menu paths of a procedure

Indent == <<" ", " ", " ", " ">>
BodyIndent == Indent \o Indent
DocstringLineLength == 80

\* f'\n{_BODY_INDENT}' * n
RECURSIVE NewlineIndent(_)
NewlineIndent(n) == IF n = 0 THEN <<>> ELSE <<"\n">> \o BodyIndent \o NewlineIndent(n - 1)

IsWhitespace(c) == c \in {" ", "\n"}

\* str.strip()
RECURSIVE StrStrip(_)
StrStrip(str) ==
  IF str = <<>> THEN <<>>
  ELSE IF IsWhitespace(Head(str)) THEN StrStrip(Tail(str))
  ELSE IF IsWhitespace(str[Len(str)]) THEN StrStrip(SubSeq(str, 1, Len(str) - 1))
  ELSE str

\* str.rstrip('/')
RECURSIVE StrRStripSlash(_)
StrRStripSlash(str) ==
  IF str # <<>> /\ str[Len(str)] = "/" THEN StrRStripSlash(SubSeq(str, 1, Len(str) - 1))
  ELSE str

\* sep.join(strs)
RECURSIVE StrJoin(_, _)
StrJoin(sep, strs) ==
  IF strs = <<>> THEN <<>>
  ELSE IF Len(strs) = 1 THEN strs[1]
  ELSE strs[1] \o sep \o StrJoin(sep, Tail(strs))

\* textwrap: the text split into words and runs of whitespace, every
\* whitespace character replaced by a space
RECURSIVE TextChunks(_, _)
TextChunks(text, chunks) ==
  IF text = <<>> THEN chunks
  ELSE LET c == IF IsWhitespace(Head(text)) THEN " " ELSE Head(text)
           last == chunks[Len(chunks)]
       IN IF chunks # <<>> /\ (last[1] = " ") = (c = " ")
          THEN TextChunks(Tail(text), [chunks EXCEPT ![Len(chunks)] = Append(@, c)])
          ELSE TextChunks(Tail(text), Append(chunks, <<c>>))

\* textwrap: the chunks that fit a line of the given width
RECURSIVE TakeChunks(_, _, _, _)
TakeChunks(chunks, cur_line, cur_len, width) ==
  IF chunks # <<>> /\ cur_len + Len(chunks[1]) <= width
  THEN TakeChunks(Tail(chunks), Append(cur_line, chunks[1]), cur_len + Len(chunks[1]), width)
  ELSE [cur_line |-> cur_line, cur_len |-> cur_len, chunks |-> chunks]

\* textwrap.TextWrapper._wrap_chunks with break_long_words and drop_whitespace
RECURSIVE WrapChunks(_, _, _, _)
WrapChunks(chunks, lines, line_width, subsequent_indent) ==
  IF chunks = <<>> THEN lines
  ELSE
    LET indent == IF lines # <<>> THEN subsequent_indent ELSE <<>>
        width == line_width - Len(indent)
        chunks1 == IF chunks[1][1] = " " /\ lines # <<>> THEN Tail(chunks) ELSE chunks
        taken == TakeChunks(chunks1, <<>>, 0, width)
        is_long == taken.chunks # <<>> /\ Len(taken.chunks[1]) > width
        space_left == IF width < 1 THEN 1 ELSE width - taken.cur_len
        cur_line == IF is_long
                    THEN Append(taken.cur_line, SubSeq(taken.chunks[1], 1, space_left))
                    ELSE taken.cur_line
        rest == IF is_long
                THEN <<SubSeq(taken.chunks[1], space_left + 1, Len(taken.chunks[1]))>>
                       \o Tail(taken.chunks)
                ELSE taken.chunks
        kept == IF cur_line # <<>> /\ cur_line[Len(cur_line)] # <<>>
                   /\ cur_line[Len(cur_line)][1] = " "
                THEN SubSeq(cur_line, 1, Len(cur_line) - 1) ELSE cur_line
    IN WrapChunks(rest,
                  IF kept # <<>> THEN Append(lines, indent \o StrJoin(<<>>, kept)) ELSE lines,
                  line_width, subsequent_indent)

\* textwrap.fill(text, width=..., subsequent_indent=..., break_on_hyphens=False)
TextwrapFill(text, width, subsequent_indent) ==
  StrJoin(<<"\n">>, WrapChunks(TextChunks(text, <<>>), <<>>, width, subsequent_indent))

\* strip, a closing full stop, a capital first letter
AsSentence(text) ==
  LET stripped == StrStrip(text)
      stopped == IF StrEndsWith(stripped, <<".">>) THEN stripped ELSE Append(stripped, ".")
  IN StrUpper(<<Head(stopped)>>) \o Tail(stopped)

\* if field: for a str, a list or None
IsSpecified(field) == field # None /\ field.v # <<>>

\* _add_proc_blurb_to_docstring
AddProcBlurbToDocstring(proc_blurb, proc_docstring) ==
  IF IsSpecified(proc_blurb)
  THEN proc_docstring
         \o TextwrapFill(AsSentence(proc_blurb.v),
                         DocstringLineLength - Len(BodyIndent) - 3, BodyIndent)
  ELSE proc_docstring

\* the separator put before a field or the menu paths
FieldSeparator(proc_docstring, add_extra_newline) ==
  IF proc_docstring # <<>> THEN NewlineIndent(IF add_extra_newline THEN 2 ELSE 1) ELSE <<>>

\* _add_field_to_docstring
AddFieldToDocstring(field, proc_docstring, prefix, add_extra_newline) ==
  IF IsSpecified(field)
  THEN [docstring |-> proc_docstring \o FieldSeparator(proc_docstring, add_extra_newline)
                        \o <<prefix, ": ">> \o field.v,
        is_specified |-> TRUE]
  ELSE [docstring |-> proc_docstring, is_specified |-> FALSE]

\* _add_menu_paths_to_docstring
AddMenuPathsToDocstring(proc_menu_paths, proc_docstring, add_extra_newline) ==
  IF proc_menu_paths # <<>>
  THEN LET paths == [i \in DOMAIN proc_menu_paths |-> StrRStripSlash(proc_menu_paths[i])]
           title == IF Len(paths) > 1 THEN "Menu paths" ELSE "Menu path"
       IN proc_docstring \o FieldSeparator(proc_docstring, add_extra_newline)
            \o <<title, ": ">> \o StrJoin(<<", ">>, paths)
  ELSE proc_docstring

\* _add_proc_help_to_docstring, for a help text of one paragraph whose words are
\* separated by single spaces: the first textwrap.fill puts single newlines
\* between non-space characters, the second re.sub turns them into spaces
\* again, and split gives the one paragraph
AddProcHelpToDocstring(proc_help, proc_docstring) ==
  IF IsSpecified(proc_help)
  THEN LET filled == TextwrapFill(AsSentence(proc_help.v),
                                  DocstringLineLength - Len(BodyIndent), <<>>)
           paragraph == StrReplace(filled, "\n", <<" ">>)
           help == TextwrapFill(paragraph, DocstringLineLength - Len(BodyIndent), BodyIndent)
       IN proc_docstring \o (IF proc_docstring # <<>> THEN NewlineIndent(2) ELSE <<>>) \o help
  ELSE proc_docstring

\* a slip: the flag is passed on as it is
AddExtraNewline_AsBefore(add_extra_newline, is_specified) == add_extra_newline

\* add_extra_newline = add_extra_newline and not is_specified
AddExtraNewline(add_extra_newline, is_specified) == add_extra_newline /\ ~is_specified

\* _insert_gimp_pdb_procedure_docstring for a procedure without arguments and
\* return values (for these the parameter and return value sections add nothing)
GimpPdbProcedureDocstring(procedure) ==
  LET blurb == AddProcBlurbToDocstring(procedure.blurb, <<>>)
      image_types == AddFieldToDocstring(procedure.image_types, blurb, "Image types", TRUE)
      extra1 == AddExtraNewline(TRUE, image_types.is_specified)
      menu_label == AddFieldToDocstring(procedure.menu_label, image_types.docstring,
                                        "Menu label", extra1)
      extra2 == AddExtraNewline(extra1, menu_label.is_specified)
      menu_paths == AddMenuPathsToDocstring(procedure.menu_paths, menu_label.docstring, extra2)
      help == AddProcHelpToDocstring(procedure.help, menu_paths)
  IN help \o NewlineIndent(1)

\* n times the character c
Repeated(c, n) == [i \in 1..n |-> c]

\* what a procedure may expose
Blurbs ==
  { None, Str(<<>>), Str(<<" ">>), Str(<<"a", "b">>), Str(<<" ", "a", " ", "b", ".", "\n">>),
    Str(Repeated("a", 40) \o <<" ">> \o Repeated("b", 40)),
    Str(Repeated("a", 70)) }

ImageTypes == { None, Str(<<>>), Str(<<"*">>), Str(<<"RGB*", ", ", "GRAY*">>) }

MenuLabels == { None, Str(<<>>), Str(<<"Label">>) }

MenuPathChoices == { <<"<Image>", "/", "Filters">>, <<"<Image>", "/", "File", "/">> }

DocMenuPaths == UNION { [1..n -> MenuPathChoices] : n \in 0..MaxMenuPaths }

Helps == { None, Str(<<"h", "e", "l", "p">>) }

DocProcedures ==
  [blurb : Blurbs, image_types : ImageTypes, menu_label : MenuLabels,
   menu_paths : DocMenuPaths, help : Helps]

\* the stub generator composes the docstring of a procedure
InsertGimpPdbProcedureDocstring ==
  \E procedure \in DocProcedures :
    /\ docProc = None
    /\ docProc' = procedure
    /\ docstring' = Str(GimpPdbProcedureDocstring(procedure))
    /\ UNCHANGED notDocVars

DocNext == InsertGimpPdbProcedureDocstring

SpecDoc == RegInit /\ [][DocNext]_vars

----------------------------------------------------------------------------
(* Properties of _remove_implementation_of_functions                       *)

\* the nodes of the tree rooted at the ast.Module node
RECURSIVE Descendants(_, _)
Descendants(h, n) ==
  {n} \cup UNION {Descendants(h, h[n].body[i]) : i \in DOMAIN h[n].body}

InTree(h) == Descendants(h, 1)

ParentOf(h, n) == CHOOSE p \in InTree(h) : n \in Range(h[p].body)

\* the proper ancestors of a node of the tree
RECURSIVE AncestorsOf(_, _)
AncestorsOf(h, n) ==
  IF n = 1 THEN {} ELSE {ParentOf(h, n)} \cup AncestorsOf(h, ParentOf(h, n))

DefTypes == {"ClassDef", "FunctionDef", "AsyncFunctionDef"}

\* the classes and functions of a tree: which node, its name, where it is
\* nested, its parameter list and its decorators
Definitions(h) ==
  { [node |-> n, type |-> h[n].type, name |-> h[n].name, nestedIn |-> ParentOf(h, n),
     args |-> h[n].args, decorator_list |-> h[n].decorator_list] :
    n \in {m \in InTree(h) : h[m].type \in DefTypes} }

IsOnlyPass(h, n) == Len(h[n].body) = 1 /\ h[h[n].body[1]].type = "Pass"

\* the function definitions whose body the generator replaces
StrippedFunctions(h) ==
  { n \in InTree(h) :
      /\ h[n].type = "FunctionDef"
      /\ generator = "stubgen" => h[n].name # S_init }

BodiesArePass ==
  \A n \in StrippedFunctions(heap) : IsOnlyPass(heap, n)

----------------------------------------------------------------------------
(* Properties of generate_pdb_stubs                                        *)

\* the _PyPDB class node, the members it had when parsed and the members added
PypdbClass == GetPypdbClassNode(srcHeap).id
OldMembers == srcHeap[PypdbClass].body
NewMembers == SubSeq(heap[PypdbClass].body, Len(OldMembers) + 1, Len(heap[PypdbClass].body))

IsAscending(names) == \A i, j \in DOMAIN names : i < j => ~StrLess(names[j], names[i])

Reorderings(list) == {l \in ListsOver(Range(list), Len(list)) : Len(l) = Len(list)}

\* C2: the class keeps its members first and in order, then has one method per
\* GIMP PDB procedure in ascending order of procedure name, then one per GEGL
\* operation in ascending order of operation name, each named by the Python
\* form of the name.
C2_MethodsAppendedInOrder ==
  stubStatus = "written" =>
    /\ Len(heap[PypdbClass].body) = Len(OldMembers) + Len(gimpProcs) + Len(geglOps)
    /\ SubSeq(heap[PypdbClass].body, 1, Len(OldMembers)) = OldMembers
    /\ \A i, j \in DOMAIN NewMembers : i # j => NewMembers[i] # NewMembers[j]
    /\ \E g \in Reorderings(gimpProcs), o \in Reorderings(geglOps) :
         /\ IsAscending(g)
         /\ IsAscending(o)
         /\ \A i \in DOMAIN NewMembers :
              /\ heap[NewMembers[i]].type = "FunctionDef"
              /\ heap[NewMembers[i]].name = CanonicalNameToPythonName((g \o o)[i])

C2_Witness ==
  /\ stubStatus = "written"
  /\ Len(OldMembers) = 2
  /\ Len(gimpProcs) = 3 /\ ~IsAscending(gimpProcs)
  /\ Len(geglOps) = 2 /\ ~IsAscending(geglOps)

\* the procedure each added method was generated from
AddedProcedureNames == Sorted(gimpProcs) \o Sorted(geglOps)
AddedIsGimp(i) == i <= Len(gimpProcs)

\* C3: the parameters of a generated method are `self` and then the arguments
\* in the procedure's order, and there are as many defaults as arguments, the
\* i-th being the default of the i-th argument.
C3_ParametersAndDefaultsAligned ==
  stubStatus = "written" =>
    \A i \in DOMAIN NewMembers :
      LET node == heap[NewMembers[i]]
          proc_args == procInfo[AddedProcedureNames[i]].arguments
      IN /\ [k \in DOMAIN node.args |-> node.args[k].arg] =
              <<S_self>> \o [k \in DOMAIN proc_args |->
                               CanonicalNameToPythonName(proc_args[k].name)]
         /\ Len(node.defaults) = Len(proc_args)
         /\ \A k \in DOMAIN proc_args : node.defaults[k] = ArgDefaultValue(proc_args[k])

C3_Witness ==
  /\ stubStatus = "written"
  /\ gimpProcs = <<S_proc>>
  /\ procInfo[S_proc].arguments = <<P_image, P_int>>
  /\ heap[NewMembers[1]].defaults = <<[type |-> "Constant", value |-> None],
                                      [type |-> "Constant", value |-> PyInt(0)]>>

\* C4 as stated: an enum default (of a parameter that is not a GEGL enum) is
\* written as <Module>.<EnumType>.<MEMBER> with MEMBER the member that equals
\* the default value.
C4_EnumDefaultIsOwnMember ==
  stubStatus = "written" =>
    \A i \in DOMAIN NewMembers :
      LET node == heap[NewMembers[i]]
          proc_args == procInfo[AddedProcedureNames[i]].arguments
      IN \A k \in DOMAIN proc_args :
           LET default == proc_args[k].default
           IN (default # None /\ default.py = "GEnum" /\ ~IsGeglEnumParam(proc_args[k])) =>
                node.defaults[k] =
                  QualifiedName(<<"Gimp">>, default.enum_type.qualname, default.member)

\* the type names the return values of the model have
C5_TypeName(proc_return_value) ==
  IF proc_return_value = P_image THEN <<"Gimp", ".", "Image">>
  ELSE IF proc_return_value = P_int THEN <<"int">>
  ELSE IF proc_return_value = P_drawables THEN <<"list", "[", "Gimp", ".", "Drawable", "]">>
  ELSE <<"Any">>

\* C5: a GIMP PDB procedure stub has no return annotation without return
\* values, the type name of the only return value, or tuple[T1, ..., Tk] in the
\* order of the return values (Any for a type without a name); a GEGL
\* operation stub has no return annotation.
C5_ReturnAnnotation ==
  stubStatus = "written" =>
    \A i \in DOMAIN NewMembers :
      LET returns == heap[NewMembers[i]].returns
          rv == procInfo[AddedProcedureNames[i]].return_values
      IN IF ~AddedIsGimp(i) THEN returns = None
         ELSE IF Len(rv) = 0 THEN returns = None
         ELSE IF Len(rv) = 1 THEN returns = Annotation(C5_TypeName(rv[1]))
         ELSE returns = Annotation(
                          <<"tuple", "[">>
                          \o JoinTokens([k \in DOMAIN rv |-> C5_TypeName(rv[k])], <<",">>)
                          \o <<"]">>)

C5_Witness ==
  /\ stubStatus = "written"
  /\ gimpProcs = <<S_proc>>
  /\ procInfo[S_proc].return_values = <<P_unnamed, P_image>>
  /\ heap[NewMembers[1]].returns =
       Annotation(<<"tuple", "[", "Any", ",", "Gimp", ".", "Image", "]">>)

----------------------------------------------------------------------------
(* Properties of register_procedure and the plug-in callbacks              *)

\* a name with every "_" replaced by "-", character by character
Hyphenated(name) == [i \in DOMAIN name |-> IF name[i] = "_" THEN "-" ELSE name[i]]

AllSucceeded == \A i \in DOMAIN calls : calls[i].raised = ""

RegisteredNames == [i \in DOMAIN calls |-> Hyphenated(calls[i].procedure.name)]

\* C6: each function is registered under its __name__ with every "_" replaced
\* by "-", and after register_procedure calls that all succeeded
\* _do_query_procedures returns exactly the names registered so far, each once,
\* in registration order.
C6_QueryReturnsRegisteredNames ==
  [][(AllSucceeded /\ queried' # queried) =>
       /\ queried' = List(RegisteredNames)
       /\ \A i, j \in DOMAIN RegisteredNames :
            i # j => RegisteredNames[i] # RegisteredNames[j]
       /\ \A i \in DOMAIN calls :
            /\ DictHas(procedureNamesAndData, RegisteredNames[i])
            /\ DictGet(procedureNamesAndData, RegisteredNames[i]).procedure
                 = calls[i].procedure]_vars

C6_Witness ==
  /\ Len(calls) = 2
  /\ AllSucceeded
  /\ calls[1].procedure = Function(<<"h", "_", "_", "x">>)
  /\ calls[2].procedure = Function(<<"f", "_", "a">>)
  /\ queried = List(<< <<"h", "-", "-", "x">>, <<"f", "-", "a">> >>)

\* the events of list elements that were resolved to a property
IsResolved(e) == e.kind = "dict" \/ (e.kind = "str" /\ e.accepted)

\* the dictionaries of the same name handled before event k
EarlierDicts(k) ==
  { j \in 1..(k - 1) :
      /\ paramEvents[j].kind = "dict"
      /\ Hyphenated(paramEvents[j].raw) = Hyphenated(paramEvents[k].raw) }

\* the list elements a call was given
ParameterLists(call) == <<call.arguments, call.return_values, call.auxiliary_arguments>>

StringElements(call) ==
  UNION { IF l = None \/ l.type # "list" THEN {}
          ELSE { l.items[k] : k \in { n \in DOMAIN l.items : l.items[n].kind = "str" } } :
          l \in Range(ParameterLists(call)) }

StoredKeys(proc_dict, field) ==
  IF field \notin DOMAIN proc_dict THEN {}
  ELSE IF proc_dict[field] = None THEN {}
  ELSE Range(DictKeys(proc_dict[field].items))

ParameterFields == {"arguments", "return_values", "auxiliary_arguments"}

\* C8: "_" becomes "-" in the names of dictionaries and of strings alike:
\* elements whose names agree up to that replacement denote the same property,
\* registered under the hyphenated name, and no key of a procedure's stored
\* parameters contains "_".
C8_UnderscoresBecomeHyphens ==
  /\ \A k \in DOMAIN paramEvents :
       IsResolved(paramEvents[k]) =>
         /\ DictHas(pluginProperties, Hyphenated(paramEvents[k].raw))
         /\ DictGet(pluginProperties, Hyphenated(paramEvents[k].raw)) = paramEvents[k].property
  /\ \A k, n \in DOMAIN paramEvents :
       (/\ IsResolved(paramEvents[k])
        /\ IsResolved(paramEvents[n])
        /\ Hyphenated(paramEvents[k].raw) = Hyphenated(paramEvents[n].raw)) =>
         paramEvents[k].property = paramEvents[n].property
  /\ \A i \in DOMAIN procedureNamesAndData :
       \A field \in ParameterFields :
         \A key \in StoredKeys(procedureNamesAndData[i].value, field) :
           "_" \notin Range(key)
  /\ \A i \in DOMAIN calls :
       calls[i].raised = "" =>
         LET given == calls[i].arguments
         IN StoredKeys(DictGet(procedureNamesAndData, RegisteredNames[i]), "arguments") =
              IF given = None THEN {}
              ELSE { Hyphenated(given.items[k].name) : k \in DOMAIN given.items }

C8_Witness ==
  /\ Len(calls) = 1
  /\ calls[1].raised = ""
  /\ \E k, n, m \in DOMAIN paramEvents :
       /\ paramEvents[k].kind = "dict" /\ paramEvents[k].raw = S_a_b
       /\ paramEvents[n].kind = "str" /\ paramEvents[n].raw = S_a_b
       /\ paramEvents[m].kind = "str" /\ paramEvents[m].raw = S_a_hyphen_b
       /\ paramEvents[n].property = paramEvents[k].property
       /\ paramEvents[m].property = paramEvents[k].property
  /\ StoredKeys(procedureNamesAndData[1].value, "arguments") = {S_a_hyphen_b}
  /\ DictKeys(pluginProperties) = <<S_a_hyphen_b>>

----------------------------------------------------------------------------
(* Properties of _do_create_procedure and of the run wrapper               *)

\* the set_documentation calls the last creation made
CreatedDocumentationCalls ==
  SelectSeq(created.log, LAMBDA c : c[1] = "set_documentation")

\* the menu path of the procedure created last is None, a string or an iterable
CreatedMenuPathIsValid ==
  LET menu_path == DictGet(procedureNamesAndData, created.proc_name).menu_path
  IN menu_path = None \/ menu_path.type \in {"str", "list"}

\* C9: when a procedure is created and the documentation step is reached (the
\* menu path is None, a string or an iterable), a documentation of two strings
\* is passed to set_documentation with the procedure name appended, one of
\* three strings is passed as it is, one of any other length raises ValueError
\* without a set_documentation call, and None makes no set_documentation call.
C9_DocumentationTuple ==
  (/\ created # None
   /\ created.outcome \notin {"None", "KeyError"}
   /\ CreatedMenuPathIsValid) =>
    LET documentation == DictGet(procedureNamesAndData, created.proc_name).documentation
    IN IF documentation = None
         THEN created.outcome = "procedure" /\ CreatedDocumentationCalls = <<>>
       ELSE IF Len(documentation.items) = 2
         THEN /\ created.outcome = "procedure"
              /\ CreatedDocumentationCalls =
                   << <<"set_documentation",
                        <<documentation.items[1], documentation.items[2],
                          created.proc_name>> >> >>
       ELSE IF Len(documentation.items) = 3
         THEN /\ created.outcome = "procedure"
              /\ CreatedDocumentationCalls = << <<"set_documentation", documentation.items>> >>
       ELSE created.outcome = "ValueError" /\ CreatedDocumentationCalls = <<>>

C9_Witness ==
  /\ created # None
  /\ created.outcome = "procedure"
  /\ created.proc_name = <<"f", "-", "a">>
  /\ DictGet(procedureNamesAndData, created.proc_name).documentation
       = Tuple(<<S_blurb, S_help>>)
  /\ CreatedDocumentationCalls =
       << <<"set_documentation", <<S_blurb, S_help, <<"f", "-", "a">> >> >> >>

\* the run mode of the last run: the second positional argument for
\* Gimp.ImageProcedure, otherwise the config's run-mode property,
\* NONINTERACTIVE without one
RunModeOfRun ==
  LET args == ran.procedure_and_args
      properties == args[Len(args) - 1].properties
      with_name == { k \in DOMAIN properties : properties[k].name = "run-mode" }
  IN IF ran.wrapper.procedure_type = "Gimp.ImageProcedure" THEN args[2]
     ELSE IF with_name = {} THEN RunMode("NONINTERACTIVE")
     ELSE properties[CHOOSE k \in with_name : \A n \in with_name : k <= n].value

EventsOfRun(name) == { k \in DOMAIN ran.events : ran.events[k][1] = name }

\* C10: the run wrapper calls GimpUi.init, with the procedure's name, exactly
\* when init_ui is true and the run mode is INTERACTIVE, once and before the
\* registered function is called; otherwise it never calls GimpUi.init.
C10_UiInitBeforeFunction ==
  ran # None =>
    /\ Cardinality(EventsOfRun("func")) = 1
    /\ IF ran.wrapper.init_ui /\ RunModeOfRun = RunMode("INTERACTIVE")
       THEN /\ Cardinality(EventsOfRun("GimpUi.init")) = 1
            /\ \A k \in EventsOfRun("GimpUi.init") :
                 /\ ran.events[k] = <<"GimpUi.init", ran.procedure_and_args[1].name>>
                 /\ \A f \in EventsOfRun("func") : k < f
       ELSE EventsOfRun("GimpUi.init") = {}

C10_Witness ==
  /\ ran # None
  /\ ran.wrapper.procedure_type = "Gimp.ImageProcedure"
  /\ ran.wrapper.init_ui
  /\ ran.procedure_and_args[2] = RunMode("INTERACTIVE")
  /\ ConfigRunMode(ran.procedure_and_args[5].properties, 1) = RunMode("NONINTERACTIVE")
  /\ ran.events[1] = <<"GimpUi.init", <<"g">> >>
  /\ ran.events[2][1] = "func"

----------------------------------------------------------------------------
(* Properties of _create_plugin_class                                      *)

\* the argument of the most recent call of a setter, None without a call
LastSet(function) ==
  LET made == { k \in DOMAIN setCalls : setCalls[k].function = function }
  IN IF made = {} THEN None
     ELSE setCalls[CHOOSE k \in made : \A n \in made : n <= k].func

\* C11: the plug-in class defines do_init_procedures exactly when the most
\* recent set_init_procedures_func call passed a function, and binds it to that
\* function; it defines do_quit exactly when the most recent set_quit_func
\* call passed a function; after a call passing None, and without any call,
\* the method is not defined.
C11_PluginClassCallbacks ==
  pluginClass # None =>
    LET class_dict == pluginClass.class_dict
        init == LastSet("set_init_procedures_func")
        quit == LastSet("set_quit_func")
    IN /\ init.type = "function" =>
            /\ DictHas(class_dict, S_do_init_procedures)
            /\ DictGet(class_dict, S_do_init_procedures) = init
       /\ init = None => ~DictHas(class_dict, S_do_init_procedures)
       /\ quit.type = "function" =>
            /\ DictHas(class_dict, S_do_quit)
            /\ DictGet(class_dict, S_do_quit) = quit
       /\ quit = None => ~DictHas(class_dict, S_do_quit)

C11_Witness ==
  /\ pluginClass # None
  /\ Len(setCalls) = 3
  /\ setCalls[1] = [function |-> "set_init_procedures_func", func |-> Function(<<"g">>)]
  /\ setCalls[2] = [function |-> "set_quit_func", func |-> Function(<<"g">>)]
  /\ setCalls[3] = [function |-> "set_init_procedures_func", func |-> None]
  /\ ~DictHas(pluginClass.class_dict, S_do_init_procedures)
  /\ DictGet(pluginClass.class_dict, S_do_quit) = Function(<<"g">>)

----------------------------------------------------------------------------
(* Properties of the order of calls in _do_create_procedure                *)

\* the hyphenated names of a registered list, each at its first place
RECURSIVE NamesInOrder(_)
NamesInOrder(items) ==
  IF items = <<>> THEN <<>>
  ELSE LET before == NamesInOrder(SubSeq(items, 1, Len(items) - 1))
           name == Hyphenated(items[Len(items)].name)
       IN IF name \in Range(before) THEN before ELSE Append(before, name)

GivenNames(parameters) == IF parameters = None THEN <<>> ELSE NamesInOrder(parameters.items)

\* the places in the log of the last creation of the calls of a method
CreatedCallsOf(method) == { k \in DOMAIN created.log : created.log[k][1] = method }

\* the names passed to a method in the last creation, in the order of the calls
CreatedNamesOf(method) ==
  LET called == SelectSeq(created.log, LAMBDA c : c[1] = method)
  IN [k \in DOMAIN called |-> called[k][2]]

\* C12: when _do_create_procedure returns a procedure, additional_init (if
\* given) was called exactly once, with that procedure, after every other call
\* made on it; arguments were added before return values and those before
\* auxiliary arguments, each group in the order given at registration.
C12_AdditionalInitLast ==
  (created # None /\ created.outcome = "procedure" /\ Len(calls) = 1) =>
    LET proc_dict == DictGet(procedureNamesAndData, created.proc_name)
        log == created.log
        inits == CreatedCallsOf("additional_init")
    IN /\ IF calls[1].rest.additional_init = None THEN inits = {}
          ELSE /\ inits = {Len(log)}
               /\ log[Len(log)] = <<"additional_init", calls[1].rest.additional_init,
                                    created.returned>>
       /\ created.returned.name = created.proc_name
       /\ CreatedNamesOf("add_argument_from_property") = GivenNames(calls[1].arguments)
       /\ CreatedNamesOf("add_return_value_from_property") =
            GivenNames(calls[1].return_values)
       /\ CreatedNamesOf("add_aux_argument_from_property") =
            GivenNames(calls[1].auxiliary_arguments)
       /\ \A a \in CreatedCallsOf("add_argument_from_property"),
             r \in CreatedCallsOf("add_return_value_from_property") : a < r
       /\ \A r \in CreatedCallsOf("add_return_value_from_property"),
             x \in CreatedCallsOf("add_aux_argument_from_property") : r < x
       /\ \A a \in CreatedCallsOf("add_argument_from_property"),
             x \in CreatedCallsOf("add_aux_argument_from_property") : a < x

C12_Witness ==
  /\ created # None
  /\ created.outcome = "procedure"
  /\ CreatedNamesOf("add_argument_from_property") = <<S_a_hyphen_b, <<"c">> >>
  /\ CreatedNamesOf("add_return_value_from_property") = << <<"r">>, S_a_hyphen_b>>
  /\ CreatedNamesOf("add_aux_argument_from_property") = << <<"x">>, <<"r">>, <<"c">> >>
  /\ CreatedCallsOf("set_documentation") # {}
  /\ CreatedCallsOf("set_attribution") # {}
  /\ CreatedCallsOf("add_menu_path") # {}
  /\ created.log[Len(created.log)] = <<"additional_init", Function(<<"i">>), created.returned>>

----------------------------------------------------------------------------
(* Properties of PyPDBProcedure.__call__                                   *)

\* the first argument of the host's procedure is a run mode
FirstArgumentIsRunMode(proc_name) ==
  LET arguments == DictGet(HostProcedures, proc_name)
  IN Len(arguments) > 0 /\ arguments[1].value_type.name = <<"Gimp", "RunMode">>

\* C13: a call makes exactly one host call: without a config
\* run_procedure(name, [run_mode, *args]) if the procedure's first argument is
\* a run mode and run_procedure(name, args) otherwise; with a config
\* run_procedure_config(name, config), passing neither args nor run_mode.
C13_Dispatch ==
  pdbCall # None =>
    /\ Len(pdbCall.host) = 1
    /\ pdbCall.host[1] =
         IF pdbCall.config # None
           THEN <<"run_procedure_config", pdbCall.name, pdbCall.config>>
         ELSE IF FirstArgumentIsRunMode(pdbCall.name)
           THEN <<"run_procedure", pdbCall.name, <<pdbCall.run_mode>> \o pdbCall.args>>
         ELSE <<"run_procedure", pdbCall.name, pdbCall.args>>

C13_Witness ==
  /\ Len(pdbHistory) = 2
  /\ pdbCall # None
  /\ pdbCall.name = <<"p", "-", "b">>
  /\ pdbCall.config = None
  /\ pdbCall.run_mode = RunMode("INTERACTIVE")
  /\ pdbCall.host = << <<"run_procedure", <<"p", "-", "b">>, <<Object("image")>> >> >>

StartsWithStatus(result) ==
  /\ result # None
  /\ result.items # <<>>
  /\ result.items[1].type = "Gimp.PDBStatusType"

SucceededStatuses == {PDBStatusType("SUCCESS"), PDBStatusType("PASS_THROUGH")}

\* the values of a result that starts with a status: what follows the status
\* and, for a failed call, the error
ValuesOf(result) ==
  LET after_status == Tail(result.items)
  IN IF result.items[1] \in SucceededStatuses \/ after_status = <<>> THEN after_status
     ELSE Tail(after_status)

\* C14: a call whose host result is None, empty or starts with a status returns
\* the values after the status (and after the error of a failed call): None
\* when there is no result or no value, the value itself when there is one, the
\* list of the values in their order when there are more.
C14_ReturnedValues ==
  \A k \in DOMAIN pdbHistory :
    LET result == pdbHistory[k].result
        returned == pdbHistory[k].returned
    IN IF result = None THEN returned = None
       ELSE IF result.items = <<>> THEN returned = None
       ELSE StartsWithStatus(result) =>
              LET values == ValuesOf(result)
              IN IF values = <<>> THEN returned = None
                 ELSE IF Len(values) = 1 THEN returned = values[1]
                 ELSE returned = List(values)

C14_Witness ==
  /\ Len(pdbHistory) = 3
  /\ pdbHistory[1].result = ValueArray(<<PDBStatusType("EXECUTION_ERROR"), Str("message")>>)
  /\ pdbHistory[1].returned = None
  /\ pdbHistory[2].result = ValueArray(<<PDBStatusType("SUCCESS"), Object("v")>>)
  /\ pdbHistory[2].returned = Object("v")
  /\ pdbHistory[3].result =
       ValueArray(<<PDBStatusType("SUCCESS"), Object("v"), Object("w")>>)
  /\ pdbHistory[3].returned = List(<<Object("v"), Object("w")>>)

\* the calls made through a wrapper
CallsThrough(wrapper) == { k \in DOMAIN pdbHistory : pdbHistory[k].wrapper = wrapper }

\* C16 as stated: when the most recent call through a wrapper returned a result
\* that starts with a status, last_status is that status, and last_error is
\* None if the status is SUCCESS or PASS_THROUGH.
C16_StatusAndErrorOfLastCall ==
  \A wrapper \in PyPDBs :
    CallsThrough(wrapper) # {} =>
      LET last == CHOOSE k \in CallsThrough(wrapper) : \A n \in CallsThrough(wrapper) : n <= k
          result == pdbHistory[last].result
      IN StartsWithStatus(result) =>
           /\ lastStatus[wrapper] = result.items[1]
           /\ result.items[1] \in SucceededStatuses => lastError[wrapper] = None

\* C17 as stated: two calls through different wrappers that get the same
\* result array from the host return the same value.
C17_ReturnDependsOnResultOnly ==
  \A i, j \in DOMAIN pdbHistory :
    (/\ pdbHistory[i].wrapper # pdbHistory[j].wrapper
     /\ pdbHistory[i].result = pdbHistory[j].result) =>
      pdbHistory[i].returned = pdbHistory[j].returned

----------------------------------------------------------------------------
(* Properties of the plug-in procedure generate_pdb_stubs                  *)

\* how often a call is made in a run
RECURSIVE CountCalls(_, _)
CountCalls(events, name) ==
  IF events = <<>> THEN 0
  ELSE (IF events[1][1] = name THEN 1 ELSE 0) + CountCalls(Tail(events), name)

IsInteractive(run) == run.run_mode = RunMode("INTERACTIVE")

IsDismissed(run) == IsInteractive(run) /\ run.is_ok_pressed = Bool(FALSE)

----------------------------------------------------------------------------
(* Properties of _remove_all_but_attributes_and_super_calls                *)

\* an assignment whose targets are all attributes of self
IsSelfAttributeAssign(stmt) ==
  /\ stmt.type = "Assign"
  /\ \A i \in DOMAIN stmt.targets :
       /\ stmt.targets[i].type = "Attribute"
       /\ stmt.targets[i].value = Name("self")

\* an expression statement that calls a method on super()
IsSuperMethodCall(stmt) ==
  /\ stmt.type = "Expr"
  /\ stmt.value.type = "Call"
  /\ stmt.value.func.type = "Attribute"
  /\ stmt.value.func.value = Call(Name("super"))

\* the statements of a body that the method is to keep, in their order
RECURSIVE KeptOf(_, _)
KeptOf(h, body) ==
  IF body = <<>> THEN <<>>
  ELSE (IF IsSelfAttributeAssign(h[Head(body)]) \/ IsSuperMethodCall(h[Head(body)])
        THEN <<Head(body)>> ELSE <<>>) \o KeptOf(h, Tail(body))

InitNodes == { n \in DOMAIN srcHeap :
                 srcHeap[n].type = "FunctionDef" /\ srcHeap[n].name = S_init }

\* C18: when stubgen.py has handled a module, the run has not raised, and the
\* body of every __init__ method holds exactly the statements of its source
\* body that are assignments to attributes of self or calls of a method on
\* super(), in their original order; the kept assignments have the value None
\* and the kept calls are unchanged.
C18_KeepsAttributesAndSuperCalls ==
  (generator = "stubgen" /\ stripStatus # "parsed") =>
    /\ stripStatus = "done"
    /\ \A n \in InitNodes :
         /\ heap[n].body = KeptOf(srcHeap, srcHeap[n].body)
         /\ \A i \in DOMAIN heap[n].body :
              LET id == heap[n].body[i]
              IN heap[id] = IF srcHeap[id].type = "Assign"
                            THEN [srcHeap[id] EXCEPT !.value = ConstantExpr("None")]
                            ELSE srcHeap[id]

----------------------------------------------------------------------------
(* Properties of the docstring of a GIMP PDB procedure                     *)

\* the lines of a str: what lies between its newlines
SplitLines(str) ==
  LET newlines == {i \in DOMAIN str : str[i] = "\n"}
      Break(k) == IF k = 0 THEN 0
                  ELSE IF k > Cardinality(newlines) THEN Len(str) + 1
                  ELSE CHOOSE i \in newlines : Cardinality({j \in newlines : j < i}) = k - 1
  IN [k \in 1..(Cardinality(newlines) + 1) |-> SubSeq(str, Break(k - 1) + 1, Break(k) - 1)]

DocLines == SplitLines(docstring.v)

IsIndented(line) ==
  Len(line) >= Len(BodyIndent) /\ SubSeq(line, 1, Len(BodyIndent)) = BodyIndent

WithoutIndent(line) ==
  IF IsIndented(line) THEN SubSeq(line, Len(BodyIndent) + 1, Len(line)) ELSE line

\* a line that holds a header field
IsFieldLine(line) ==
  LET field == WithoutIndent(line)
  IN /\ Len(field) >= 2
     /\ field[1] \in {"Image types", "Menu label", "Menu path", "Menu paths"}
     /\ field[2] = ": "

\* the numbers of the lines that hold a header field, ascending
RECURSIVE FieldLinesFrom(_, _)
FieldLinesFrom(lines, i) ==
  IF i > Len(lines) THEN <<>>
  ELSE (IF IsFieldLine(lines[i]) THEN <<i>> ELSE <<>>) \o FieldLinesFrom(lines, i + 1)

IsPresent(field) == field # None /\ field.v # <<>>

\* the header fields a procedure has, in the order of the claim
PresentFields(procedure) ==
  (IF IsPresent(procedure.image_types)
   THEN << <<"Image types", ": ">> \o procedure.image_types.v >> ELSE <<>>)
  \o (IF IsPresent(procedure.menu_label)
      THEN << <<"Menu label", ": ">> \o procedure.menu_label.v >> ELSE <<>>)
  \o (IF Len(procedure.menu_paths) = 1 THEN << <<"Menu path", ": ">> >>
      ELSE IF Len(procedure.menu_paths) > 1 THEN << <<"Menu paths", ": ">> >>
      ELSE <<>>)

\* C19: in the docstring of a GIMP PDB procedure the header fields Image types,
\* Menu label and Menu path(s) appear in this order after the blurb, each
\* exactly when the procedure has a non-empty value for it.  When a blurb is
\* present, the line before the first present field is blank and the lines
\* before that are the lines of the blurb; every later field is on the line
\* directly after the previous field.  Without a blurb the docstring starts
\* with the first present field, with no newline and no indentation before it.
C19_HeaderFields ==
  docProc # None =>
    LET lines == DocLines
        at == FieldLinesFrom(lines, 1)
        present == PresentFields(docProc)
    IN /\ Len(at) = Len(present)
       /\ \A k \in DOMAIN at :
            LET field == WithoutIndent(lines[at[k]])
            IN /\ Len(field) >= Len(present[k])
               /\ SubSeq(field, 1, Len(present[k])) = present[k]
       /\ \A k \in DOMAIN at :
            k > 1 => (at[k] = at[k - 1] + 1 /\ IsIndented(lines[at[k]]))
       /\ at # <<>> =>
            IF IsPresent(docProc.blurb)
            THEN /\ at[1] >= 3
                 /\ lines[at[1] - 1] = BodyIndent
                 /\ \A j \in 1..(at[1] - 2) : \E i \in DOMAIN lines[j] : lines[j][i] # " "
                 /\ IsIndented(lines[at[1]])
            ELSE /\ at[1] = 1
                 /\ ~IsIndented(lines[1])

\* C19: a blurb of two lines without image types, followed by a blank line, the
\* menu label and, on the next line, two menu paths
C19_Witness ==
  /\ docProc # None
  /\ docProc.blurb = Str(Repeated("a", 40) \o <<" ">> \o Repeated("b", 40))
  /\ docProc.image_types = None
  /\ docProc.menu_label = Str(<<"Label">>)
  /\ Len(docProc.menu_paths) = 2
  /\ FieldLinesFrom(DocLines, 1) = <<4, 5>>
  /\ DocLines[3] = BodyIndent
  /\ DocLines[4] = BodyIndent \o <<"Menu label", ": ", "Label">>

=============================================================================
